---- MODULE Spec2Model ----
(***************************************************************************)
(* Opportunity analysis and decision pipeline of the arbitrage bot:        *)
(* title normalisation and product matching, opportunity pricing and       *)
(* inline risk scoring (src/src/arbitrage_analyzer.py), comprehensive      *)
(* risk, seasonal multiplier, composite ranking and the capital-bounded    *)
(* decision engine (src/src/advanced_features.py).                         *)
(*                                                                         *)
(* Number representation                                                   *)
(*   money (Decimal)      integer thousandths of a pound ("mills");        *)
(*                        Decimal arithmetic is exact on these values      *)
(*   float scores         integer hundredths (4.5 is 450, 10.0 is 1000)    *)
(*   ratios               records [num, den] compared by cross product     *)
(*   strings              sequences of one-character strings               *)
(***************************************************************************)
EXTENDS Integers, Sequences, FiniteSets, TLC

VARIABLES
    pc,                 \* position of the call being modelled
    source_products,    \* find_opportunities argument
    target_products,    \* find_opportunities argument
    profit_thresholds,  \* ArbitrageAnalyzer.profit_thresholds
    matches,            \* list returned by _match_products
    match_idx,          \* position of the for loop over matches
    built,              \* every ArbitrageOpportunity built by _analyze_opportunity
    opportunities,      \* find_opportunities' result list
    candidate_opps,     \* opportunities argument of rank / make_automated_decisions
    user_preferences,   \* rank_opportunities argument
    decision_criteria,  \* make_automated_decisions argument
    clock_month,        \* datetime.now().month
    clock_ticks,        \* months elapsed since the start of the run
    rankings,           \* results of the successive rank_opportunities calls
    price_history_rows, \* price_history rows the database holds per opportunity
    ranked_opportunities, \* make_automated_decisions local
    decide_idx,         \* position of the for loop over ranked_opportunities
    total_capital_used, \* make_automated_decisions local
    decisions,          \* make_automated_decisions' result list
    db_opportunities,   \* rows of the opportunities table, by opportunity_id
    db_price_history,   \* recorded_at of the rows of the price_history table
    mem_opportunities,  \* ArbitrageOpportunity objects held in memory, by id
    db_now,             \* datetime.now(), in clock ticks
    seasonal_calls,     \* get_seasonal_multiplier calls made, with their results
    notify_now,         \* datetime.now() of the NotificationManager, in seconds
    last_notification_time, \* NotificationManager.last_notification_time
    alerts,             \* send_opportunity_alert calls made: key, time, sent or not
    bot                 \* the ArbitrageBot of main(): running flag and scan counts

analyzer_vars == <<source_products, target_products, profit_thresholds,
                   matches, match_idx, built, opportunities>>

ranker_vars == <<candidate_opps, user_preferences, clock_month, clock_ticks,
                 rankings, price_history_rows>>

decision_vars == <<decision_criteria, ranked_opportunities, decide_idx,
                   total_capital_used, decisions>>

service_vars == <<db_opportunities, db_price_history, mem_opportunities, db_now,
                  seasonal_calls, notify_now, last_notification_time, alerts,
                  bot>>

vars == <<pc, analyzer_vars, ranker_vars, decision_vars, service_vars>>

-----------------------------------------------------------------------------
(* Generic helpers *)

Min(a, b) == IF a <= b THEN a ELSE b

Max(a, b) == IF a >= b THEN a ELSE b

\* list.sort(key=..., reverse=True): stable, descending.  gt[i][j] is
\* "key of s[i] > key of s[j]"; equal keys keep their input order.
StableSortDesc(s, gt) ==
    LET n == Len(s)
        pos(i) == 1 + Cardinality({j \in 1..n :
                        gt[j][i] \/ (~gt[i][j] /\ j < i)})
    IN  [p \in 1..n |-> s[CHOOSE i \in 1..n : pos(i) = p]]

\* obj.attr is None: none_attrs names the attributes of a Product or an
\* ArbitrageOpportunity that hold None instead of a value
IsNone(obj, attr) == attr \in obj.none_attrs

\* ratios [num, den] with den > 0
RatGt(x, y) == x.num * y.den > y.num * x.den

RatGe(x, y) == x.num * y.den >= y.num * x.den

-----------------------------------------------------------------------------
(* Strings as character sequences *)

UpperToLower ==
    [c \in {"A","B","C","D","E","F","G","H","I","J","K","L","M",
            "N","O","P","Q","R","S","T","U","V","W","X","Y","Z"} |->
        CASE c = "A" -> "a" [] c = "B" -> "b" [] c = "C" -> "c" [] c = "D" -> "d"
          [] c = "E" -> "e" [] c = "F" -> "f" [] c = "G" -> "g" [] c = "H" -> "h"
          [] c = "I" -> "i" [] c = "J" -> "j" [] c = "K" -> "k" [] c = "L" -> "l"
          [] c = "M" -> "m" [] c = "N" -> "n" [] c = "O" -> "o" [] c = "P" -> "p"
          [] c = "Q" -> "q" [] c = "R" -> "r" [] c = "S" -> "s" [] c = "T" -> "t"
          [] c = "U" -> "u" [] c = "V" -> "v" [] c = "W" -> "w" [] c = "X" -> "x"
          [] c = "Y" -> "y" [] c = "Z" -> "z"]

\* str.lower()
Lower(t) ==
    [i \in 1..Len(t) |->
        IF t[i] \in DOMAIN UpperToLower THEN UpperToLower[t[i]] ELSE t[i]]

\* \w of the re module on a lowercased string
IsWordChar(c) ==
    c \in {"a","b","c","d","e","f","g","h","i","j","k","l","m",
           "n","o","p","q","r","s","t","u","v","w","x","y","z",
           "0","1","2","3","4","5","6","7","8","9","_"}

\* \s of the re module
IsSpace(c) == c = " "

\* t[i .. i+Len(w)-1] = w
OccursAt(t, w, i) ==
    /\ i + Len(w) - 1 <= Len(t)
    /\ \A k \in 1..Len(w) : t[i + k - 1] = w[k]

\* keyword in title
Contains(t, w) == \E i \in 1..(Len(t) + 1) : OccursAt(t, w, i)

\* \bword\b matches at position i
WordMatchAt(t, w, i) ==
    /\ OccursAt(t, w, i)
    /\ (i = 1 \/ ~IsWordChar(t[i - 1]))
    /\ (i + Len(w) - 1 = Len(t) \/ ~IsWordChar(t[i + Len(w)]))

RECURSIVE RemoveWordFrom(_, _, _)
\* re.sub(r'\bword\b', '', title): left to right, non-overlapping
RemoveWordFrom(t, w, i) ==
    IF i > Len(t) THEN <<>>
    ELSE IF WordMatchAt(t, w, i) THEN RemoveWordFrom(t, w, i + Len(w))
    ELSE <<t[i]>> \o RemoveWordFrom(t, w, i + 1)

remove_words ==
    << <<"n","e","w">>, <<"u","s","e","d">>,
       <<"r","e","f","u","r","b","i","s","h","e","d">>,
       <<"g","e","n","u","i","n","e">>, <<"o","r","i","g","i","n","a","l">>,
       <<"o","f","f","i","c","i","a","l">>, <<"f","a","s","t">>,
       <<"f","r","e","e">>, <<"s","h","i","p","p","i","n","g">>,
       <<"d","e","l","i","v","e","r","y">>, <<"u","k">>, <<"g","b">>,
       <<"e","u","r","o","p","e">>, <<"w","a","r","r","a","n","t","y">>,
       <<"s","e","a","l","e","d">>, <<"b","o","x","e","d">>,
       <<"b","r","a","n","d">> >>

RECURSIVE RemoveWords(_, _)
\* for word in remove_words: title = re.sub(...)
RemoveWords(t, k) ==
    IF k > Len(remove_words) THEN t
    ELSE RemoveWords(RemoveWordFrom(t, remove_words[k], 1), k + 1)

\* re.sub(r'[^\w\s]', ' ', title)
PunctToSpace(t) ==
    [i \in 1..Len(t) |-> IF IsWordChar(t[i]) \/ IsSpace(t[i]) THEN t[i] ELSE " "]

RECURSIVE CollapseSpaces(_, _)
\* re.sub(r'\s+', ' ', title)
CollapseSpaces(t, i) ==
    IF i > Len(t) THEN <<>>
    ELSE IF IsSpace(t[i]) /\ i > 1 /\ IsSpace(t[i - 1]) THEN CollapseSpaces(t, i + 1)
    ELSE <<t[i]>> \o CollapseSpaces(t, i + 1)

\* str.strip() of a string whose whitespace runs are single spaces
Strip(t) ==
    LET lo == IF Len(t) > 0 /\ IsSpace(t[1]) THEN 2 ELSE 1
        hi == IF Len(t) > 0 /\ IsSpace(t[Len(t)]) THEN Len(t) - 1 ELSE Len(t)
    IN  IF lo > hi THEN <<>> ELSE SubSeq(t, lo, hi)

_normalize_title(title) ==
    IF title = <<>> THEN <<>>
    ELSE Strip(CollapseSpaces(PunctToSpace(RemoveWords(Lower(title), 1)), 1))

-----------------------------------------------------------------------------
(* difflib.SequenceMatcher(None, a, b).ratio() for strings shorter than    *)
(* 200 characters (no junk, no autojunk)                                   *)

RECURSIVE CommonPrefix(_, _, _, _, _, _)
\* length of the longest common run starting at a[i], b[j] inside the windows
CommonPrefix(a, b, i, ahi, j, bhi) ==
    IF i > ahi \/ j > bhi \/ a[i] # b[j] THEN 0
    ELSE 1 + CommonPrefix(a, b, i + 1, ahi, j + 1, bhi)

\* find_longest_match: longest block, earliest in a, then earliest in b
find_longest_match(a, b, alo, ahi, blo, bhi) ==
    LET cand == {<<i, j, CommonPrefix(a, b, i, ahi, j, bhi)>> :
                    i \in alo..ahi, j \in blo..bhi}
        better(c, d) == \/ c[3] > d[3]
                        \/ c[3] = d[3] /\ c[1] < d[1]
                        \/ c[3] = d[3] /\ c[1] = d[1] /\ c[2] <= d[2]
    IN  CHOOSE c \in cand : \A d \in cand : better(c, d)

RECURSIVE MatchedChars(_, _, _, _, _, _)
\* get_matching_blocks: sum of the sizes of the blocks found in the window
MatchedChars(a, b, alo, ahi, blo, bhi) ==
    IF alo > ahi \/ blo > bhi THEN 0
    ELSE LET m == find_longest_match(a, b, alo, ahi, blo, bhi)
         IN  IF m[3] = 0 THEN 0
             ELSE m[3]
                  + MatchedChars(a, b, alo, m[1] - 1, blo, m[2] - 1)
                  + MatchedChars(a, b, m[1] + m[3], ahi, m[2] + m[3], bhi)

\* ratio(): 2.0 * matches / length, and 1.0 when both strings are empty
SequenceMatcherRatio(a, b) ==
    IF Len(a) + Len(b) = 0 THEN [num |-> 1, den |-> 1]
    ELSE [num |-> 2 * MatchedChars(a, b, 1, Len(a), 1, Len(b)),
          den |-> Len(a) + Len(b)]

-----------------------------------------------------------------------------
(* ArbitrageAnalyzer: fees, risk, demand, opportunity construction          *)
(* Prices are whole pounds held in mills, so every percentage fee is an     *)
(* exact number of mills, as it is an exact Decimal in the code.            *)

\* eBay fees charged whatever the side of the transaction
EbayFeesOnEitherSide(price, transaction_type) ==
    LET listing_fee        == 350
        final_value_fee    == (price * 129) \div 1000
        payment_processing == (price * 30) \div 1000 + 300
    IN  listing_fee + final_value_fee + payment_processing

_calculate_ebay_fees(price, transaction_type) ==
    IF transaction_type = "sell"
    THEN LET listing_fee        == 350
             final_value_fee    == (price * 129) \div 1000
             payment_processing == (price * 30) \div 1000 + 300
         IN  listing_fee + final_value_fee + payment_processing
    ELSE 0

_calculate_amazon_fees(price, transaction_type) ==
    IF transaction_type = "sell"
    THEN LET referral_fee == (price * 150) \div 1000
             fba_fee      == 2500
             storage_fee  == 750
         IN  referral_fee + fba_fee + storage_fee
    ELSE 0

\* AmazonAPI.calculate_fees (amazon_api.py), in mills.  Categories are held
\* in lower case, as parse_ebay_results and search_products store them.
AmazonAPI_calculate_fees(price, category) ==
    LET referral_fee_rate ==
            CASE category = "electronics" -> 80
              [] category = "computers"   -> 60
              [] category = "home_garden" -> 150
              [] category = "books"       -> 150
              [] category = "clothing"    -> 170
              [] category = "jewelry"     -> 200
              [] category = "general"     -> 150
              [] OTHER                    -> 150
        referral_fee == (price * referral_fee_rate) \div 1000
        fulfillment_fee == IF price <= 10000 THEN 2310
                           ELSE IF price <= 20000 THEN 2750
                           ELSE 3220
        storage_fee == 750
        closing_fee == IF category \notin {"books", "media"} THEN 0 ELSE 1350
    IN  referral_fee + fulfillment_fee + storage_fee + closing_fee

\* EbayAPI.calculate_fees (ebay_api.py), in mills
EbayAPI_calculate_fees(price, category) ==
    LET listing_fee == 350
        final_value_fee_rate ==
            CASE category = "motors"     -> 100
              [] category = "business"   -> 120
              [] category = "general"    -> 129
              [] category = "technology" -> 129
              [] OTHER                   -> 129
        final_value_fee == (price * final_value_fee_rate) \div 1000
        payment_processing == (price * 29) \div 1000 + 300
    IN  listing_fee + final_value_fee + payment_processing

\* fee_calculators.get(platform); no calculator means Decimal('0')
_calculate_fees(price, platform, transaction_type) ==
    CASE platform = "ebay"   -> _calculate_ebay_fees(price, transaction_type)
      [] platform = "amazon" -> _calculate_amazon_fees(price, transaction_type)
      [] OTHER               -> 0

\* _calculate_fees raises TypeError: only the sell branch of a calculator
\* touches the price (price * Decimal(...) on None)
CalculateFeesRaises(product, transaction_type) ==
    /\ transaction_type = "sell"
    /\ product.platform \in {"ebay", "amazon"}
    /\ IsNone(product, "price")

\* the additive risk contributions, in hundredths
RawRiskScore(source_product, target_product, profit) ==
    LET ratio_risk ==
            IF source_product.price > 0
            THEN IF target_product.price > 3 * source_product.price THEN 300
                 ELSE IF target_product.price > 2 * source_product.price THEN 150
                 ELSE 0
            ELSE 0
        source_rating_risk == IF source_product.seller_rating < 400 THEN 200 ELSE 0
        target_rating_risk == IF target_product.seller_rating < 400 THEN 100 ELSE 0
        low_stock_risk     == IF source_product.stock < 5 THEN 150 ELSE 0
        no_stock_risk      == IF source_product.stock = 0 THEN 300 ELSE 0
        margin_risk        == IF profit < 5000 THEN 200
                              ELSE IF profit < 15000 THEN 100 ELSE 0
        platform_risk      == CASE source_product.platform = "ebay"   -> 100
                                [] source_product.platform = "amazon" -> 50
                                [] OTHER                              -> 100
        risk == ratio_risk + source_rating_risk + target_rating_risk
                + low_stock_risk + no_stock_risk + margin_risk + platform_risk
    IN  risk

\* the unclamped sum returned as it is
RiskScoreUnclamped(source_product, target_product, profit) ==
    RawRiskScore(source_product, target_product, profit)

\* return min(risk, 10.0), in hundredths
_calculate_risk_score(source_product, target_product, profit) ==
    Min(RawRiskScore(source_product, target_product, profit), 1000)

high_demand_keywords ==
    { <<"i","p","h","o","n","e">>, <<"s","a","m","s","u","n","g">>,
      <<"a","p","p","l","e">>, <<"s","o","n","y">>,
      <<"n","i","n","t","e","n","d","o">>,
      <<"p","l","a","y","s","t","a","t","i","o","n">>, <<"x","b","o","x">>,
      <<"a","i","r","p","o","d","s">>, <<"m","a","c","b","o","o","k">> }

\* demand score in hundredths
_estimate_demand_score(product) ==
    LET title_lower == Lower(product.title)
        keyword_bonus ==
            IF \E keyword \in high_demand_keywords : Contains(title_lower, keyword)
            THEN 200 ELSE 0
        price_bonus ==
            IF 20000 <= product.price /\ product.price <= 200000 THEN 100 ELSE 0
    IN  Min(500 + keyword_bonus + price_bonus, 1000)

\* costs with the source shipping left out of source_total_cost
OpportunityCostsNoShipping(source_product, target_product) ==
    LET source_total_cost == source_product.price
        source_fees == _calculate_fees(source_product.price,
                                       source_product.platform, "buy")
        target_revenue == target_product.price
        target_fees == _calculate_fees(target_product.price,
                                       target_product.platform, "sell")
        total_costs == source_total_cost + source_fees + target_fees
    IN  [source_fees |-> source_fees, target_fees |-> target_fees,
         total_costs |-> total_costs, net_profit |-> target_revenue - total_costs]

\* the cost, revenue and net profit lines of _analyze_opportunity
OpportunityCosts(source_product, target_product) ==
    LET source_total_cost == source_product.price + source_product.shipping
        source_fees == _calculate_fees(source_product.price,
                                       source_product.platform, "buy")
        target_revenue == target_product.price
        target_fees == _calculate_fees(target_product.price,
                                       target_product.platform, "sell")
        total_costs == source_total_cost + source_fees + target_fees
    IN  [source_fees |-> source_fees, target_fees |-> target_fees,
         total_costs |-> total_costs, net_profit |-> target_revenue - total_costs]

\* the division attempted whenever total_costs >= 0; den = 0 stands for the
\* division by zero
RoiPercentageUnguarded(net_profit, total_costs) ==
    IF total_costs >= 0
    THEN [num |-> net_profit * 100, den |-> total_costs]
    ELSE [num |-> 0, den |-> 1]

\* float((net_profit / total_costs) * 100) if total_costs > 0 else 0,
\* as the ratio [num, den]
RoiPercentage(net_profit, total_costs) ==
    IF total_costs > 0
    THEN [num |-> net_profit * 100, den |-> total_costs]
    ELSE [num |-> 0, den |-> 1]

\* _analyze_opportunity raises TypeError or AttributeError: arithmetic or a
\* comparison on None (price, shipping, seller_rating, stock) or
\* target_product.title.lower() on None
AnalyzeRaises(source_product, target_product) ==
    \/ IsNone(source_product, "price")
    \/ IsNone(source_product, "shipping")
    \/ IsNone(target_product, "price")
    \/ IsNone(source_product, "seller_rating")
    \/ IsNone(target_product, "seller_rating")
    \/ IsNone(source_product, "stock")
    \/ IsNone(target_product, "title")

_analyze_opportunity(source_product, target_product, opportunity_id) ==
    LET costs == OpportunityCosts(source_product, target_product)
        source_fees == costs.source_fees
        target_fees == costs.target_fees
        net_profit == costs.net_profit
        roi_percentage == RoiPercentage(net_profit, costs.total_costs)
        risk_score == _calculate_risk_score(source_product, target_product,
                                            net_profit)
        demand_score == _estimate_demand_score(target_product)
    IN  [opportunity_id       |-> opportunity_id,
         source_platform      |-> source_product.platform,
         target_platform      |-> target_product.platform,
         product_title        |-> target_product.title,
         source_price         |-> source_product.price,
         target_price         |-> target_product.price,
         source_url           |-> source_product.url,
         target_url           |-> target_product.url,
         source_shipping      |-> source_product.shipping,
         target_shipping      |-> target_product.shipping,
         source_fees          |-> source_fees,
         target_fees          |-> target_fees,
         net_profit           |-> net_profit,
         roi_percentage       |-> roi_percentage,
         source_seller_rating |-> source_product.seller_rating,
         target_seller_rating |-> target_product.seller_rating,
         source_stock         |-> source_product.stock,
         target_demand_score  |-> demand_score,
         risk_score           |-> risk_score,
         status               |-> "new",
         notes                |-> <<>>,
         none_attrs           |->
             (IF IsNone(source_product, "platform")
              THEN {"source_platform"} ELSE {})
             \cup (IF IsNone(target_product, "platform")
                   THEN {"target_platform"} ELSE {})]

\* the thresholds with the seller rating test left out
IsProfitableIgnoringRating(opportunity, thresholds) ==
    /\ opportunity.net_profit >= thresholds.min_profit_gbp
    /\ RatGe(opportunity.roi_percentage, thresholds.min_roi_percentage)
    /\ opportunity.risk_score <= thresholds.max_risk_score

_is_profitable_opportunity(opportunity, thresholds) ==
    /\ opportunity.net_profit >= thresholds.min_profit_gbp
    /\ RatGe(opportunity.roi_percentage, thresholds.min_roi_percentage)
    /\ opportunity.risk_score <= thresholds.max_risk_score
    /\ opportunity.source_seller_rating >= thresholds.min_seller_rating

-----------------------------------------------------------------------------
(* ArbitrageAnalyzer._match_products *)

\* product.title as _normalize_title sees it: None is falsy like ''
TitleOf(product) == IF IsNone(product, "title") THEN <<>> ELSE product.title

Similarity(source_product, target_product) ==
    SequenceMatcherRatio(_normalize_title(TitleOf(source_product)),
                         _normalize_title(TitleOf(target_product)))

\* the nested for loops: every pair in source-major order, kept when
\* similarity > 0.6
CandidateMatches(sources, targets) ==
    LET n == Len(sources)
        m == Len(targets)
        all == [k \in 1..(n * m) |->
                   LET s == sources[((k - 1) \div m) + 1]
                       t == targets[((k - 1) % m) + 1]
                   IN  [source |-> s, target |-> t,
                        similarity |-> Similarity(s, t)]]
    IN  SelectSeq(all, LAMBDA c : RatGt(c.similarity, [num |-> 6, den |-> 10]))

\* key=lambda x: x[2]
SimilarityGt(ms) ==
    [i \in 1..Len(ms) |-> [j \in 1..Len(ms) |->
        RatGt(ms[i].similarity, ms[j].similarity)]]

\* the deduplication loop left after the first accepted pair
UniqueMatchesBestOnly(ms, k, seen_sources, seen_targets) ==
    IF k > Len(ms) THEN <<>> ELSE <<ms[k]>>

RECURSIVE UniqueMatchesSourceOnly(_, _, _, _)
\* the deduplication loop testing seen_sources only
UniqueMatchesSourceOnly(ms, k, seen_sources, seen_targets) ==
    IF k > Len(ms) THEN <<>>
    ELSE IF ms[k].source.product_id \notin seen_sources
         THEN <<ms[k]>> \o UniqueMatchesSourceOnly(ms, k + 1,
                              seen_sources \cup {ms[k].source.product_id},
                              seen_targets \cup {ms[k].target.product_id})
         ELSE UniqueMatchesSourceOnly(ms, k + 1, seen_sources, seen_targets)

RECURSIVE UniqueMatches(_, _, _, _)
\* the deduplication loop over the sorted candidates
UniqueMatches(ms, k, seen_sources, seen_targets) ==
    IF k > Len(ms) THEN <<>>
    ELSE IF /\ ms[k].source.product_id \notin seen_sources
            /\ ms[k].target.product_id \notin seen_targets
         THEN <<ms[k]>> \o UniqueMatches(ms, k + 1,
                              seen_sources \cup {ms[k].source.product_id},
                              seen_targets \cup {ms[k].target.product_id})
         ELSE UniqueMatches(ms, k + 1, seen_sources, seen_targets)

\* the candidate floor used as the construction gate
SimilarityGateAtFloor(similarity) == RatGe(similarity, [num |-> 6, den |-> 10])

\* not (similarity < 0.7) in the loop of find_opportunities
SimilarityGate(similarity) == RatGe(similarity, [num |-> 7, den |-> 10])

_match_products(sources, targets) ==
    LET candidates == CandidateMatches(sources, targets)
    IN  UniqueMatches(StableSortDesc(candidates, SimilarityGt(candidates)),
                      1, {}, {})

-----------------------------------------------------------------------------
(* advanced_features.py: price trend, seasonal multiplier, comprehensive    *)
(* risk, composite score.  Scores are in hundredths; roi_percentage of the  *)
(* opportunities handed to the ranker is a float held in hundredths; the    *)
(* composite score is in 1/10000 (score hundredths times weight hundredths) *)
(* and is exact where the code rounds to a float.                           *)

\* dict.get(key, default)
Get(dict, key, default) == IF key \in DOMAIN dict THEN dict[key] ELSE default

\* PriceTrendAnalyzer.analyze_price_trend on a price history of `rows` rows:
\* fewer than 3 rows give 'insufficient_data'; otherwise pd.to_datetime raises
\* NameError (pd is not imported by advanced_features.py) and the handler
\* returns 'error'.  Neither dict has a 'volatility' key.
analyze_price_trend(rows) ==
    IF rows < 3
    THEN [trend |-> "insufficient_data", confidence |-> 0]
    ELSE [trend |-> "error", confidence |-> 0]

electronics_keywords ==
    { <<"i","p","h","o","n","e">>, <<"s","a","m","s","u","n","g">>,
      <<"l","a","p","t","o","p">>, <<"t","a","b","l","e","t">>,
      <<"h","e","a","d","p","h","o","n","e","s">> }

gaming_keywords ==
    { <<"p","l","a","y","s","t","a","t","i","o","n">>, <<"x","b","o","x">>,
      <<"n","i","n","t","e","n","d","o">>, <<"c","o","n","s","o","l","e">>,
      <<"g","a","m","e">> }

fitness_keywords ==
    { <<"f","i","t","n","e","s","s">>, <<"t","r","e","a","d","m","i","l","l">>,
      <<"w","e","i","g","h","t","s">>, <<"e","x","e","r","c","i","s","e">> }

school_keywords ==
    { <<"l","a","p","t","o","p">>, <<"t","a","b","l","e","t">>,
      <<"b","a","c","k","p","a","c","k">> }

summer_keywords ==
    { <<"c","a","m","e","r","a">>, <<"p","h","o","n","e">>,
      <<"s","p","e","a","k","e","r">> }

AnyKeyword(title_lower, keywords) ==
    \E keyword \in keywords : Contains(title_lower, keyword)

\* multiplier in hundredths; month is current_date.month
get_seasonal_multiplier(product_title, month) ==
    LET title_lower == Lower(product_title) IN
    IF month \in {11, 12}
    THEN IF AnyKeyword(title_lower, electronics_keywords \cup gaming_keywords)
         THEN 130 ELSE 100
    ELSE IF month \in {1, 2}
    THEN IF AnyKeyword(title_lower, fitness_keywords) THEN 140 ELSE 100
    ELSE IF month \in {8, 9}
    THEN IF AnyKeyword(title_lower, school_keywords) THEN 120 ELSE 100
    ELSE IF month \in {6, 7, 8}
    THEN IF AnyKeyword(title_lower, summer_keywords) THEN 110 ELSE 100
    ELSE 100

\* a saturation risk of 14.0 for opportunities with roi above 100 percent
MarketSaturationSteep(opportunity) ==
    IF opportunity.roi_percentage > 10000 THEN 200 + 1200
    ELSE IF opportunity.roi_percentage < 2500 THEN 200 - 50
    ELSE 200

_assess_market_saturation(opportunity) ==
    IF opportunity.roi_percentage > 10000 THEN 200 + 200
    ELSE IF opportunity.roi_percentage < 2500 THEN 200 - 50
    ELSE 200

PlatformRiskScore(platform) ==
    CASE platform = "ebay"   -> 250
      [] platform = "amazon" -> 150
      [] OTHER               -> 200

_assess_platform_risk(opportunity) ==
    (PlatformRiskScore(opportunity.source_platform)
     + PlatformRiskScore(opportunity.target_platform)) \div 2

_assess_liquidity_risk(opportunity) ==
    IF opportunity.target_price < 50000 THEN 200 - 50
    ELSE IF opportunity.target_price > 500000 THEN 200 + 150
    ELSE 200

_assess_time_sensitivity(opportunity) ==
    IF opportunity.roi_percentage > 7500 THEN 150 + 100
    ELSE IF opportunity.roi_percentage < 3000 THEN 150 - 50
    ELSE 150

_generate_risk_recommendations(risks, risk_level) ==
    (IF risks.price_volatility > 300 THEN <<"monitor_price">> ELSE <<>>)
    \o (IF risks.market_saturation > 300 THEN <<"act_quickly">> ELSE <<>>)
    \o (IF risks.liquidity_risk > 300 THEN <<"lower_quantities">> ELSE <<>>)
    \o (IF risks.time_sensitivity > 250 THEN <<"time_sensitive">> ELSE <<>>)
    \o (IF risk_level = "very_high" THEN <<"caution_very_high">>
        ELSE IF risk_level = "high" THEN <<"high_risk">> ELSE <<>>)

\* a step inside the try block of assess_comprehensive_risk raises TypeError:
\* source_platform + '_' on None, a comparison of roi_percentage on None, or
\* float(target_price) on None
AssessRaises(opportunity) ==
    \/ IsNone(opportunity, "source_platform")
    \/ IsNone(opportunity, "roi_percentage")
    \/ IsNone(opportunity, "target_price")

\* a fallback that reports no risk
RiskFallbackNoRisk == [total_risk_score |-> 0, risk_level |-> "low"]

\* the dict returned by the except branch of assess_comprehensive_risk
RiskFallback == [total_risk_score |-> 1000, risk_level |-> "unknown"]

\* rows: the number of price_history rows the database holds for the product
assess_comprehensive_risk(opportunity, rows) ==
    IF AssessRaises(opportunity) THEN RiskFallback ELSE
    LET price_trend == analyze_price_trend(rows)
        volatility_risk == Min(Get(price_trend, "volatility", 2000) \div 10, 500)
        risks == [price_volatility  |-> volatility_risk,
                  market_saturation |-> _assess_market_saturation(opportunity),
                  platform_risk     |-> _assess_platform_risk(opportunity),
                  liquidity_risk    |-> _assess_liquidity_risk(opportunity),
                  time_sensitivity  |-> _assess_time_sensitivity(opportunity)]
        total_risk_score == risks.price_volatility + risks.market_saturation
                            + risks.platform_risk + risks.liquidity_risk
                            + risks.time_sensitivity
        risk_level == IF total_risk_score <= 800 THEN "low"
                      ELSE IF total_risk_score <= 1500 THEN "medium"
                      ELSE IF total_risk_score <= 2200 THEN "high"
                      ELSE "very_high"
    IN  [total_risk_score |-> total_risk_score,
         risk_level       |-> risk_level,
         risk_breakdown   |-> risks,
         recommendations  |-> _generate_risk_recommendations(risks, risk_level)]

\* weights in hundredths
_get_scoring_weights(preferences) ==
    LET base == [profit |-> 30, roi |-> 25, risk |-> 25, seasonal |-> 10,
                 velocity |-> 10]
        after_risk ==
            IF preferences.risk_tolerance = "low"
            THEN [base EXCEPT !.risk = 40, !.profit = 20]
            ELSE IF preferences.risk_tolerance = "high"
            THEN [base EXCEPT !.risk = 10, !.profit = 40]
            ELSE base
    IN  IF preferences.profit_priority = "profit"
        THEN [after_risk EXCEPT !.profit = 50, !.roi = 15]
        ELSE IF preferences.profit_priority = "roi"
        THEN [after_risk EXCEPT !.roi = 45, !.profit = 20]
        ELSE after_risk

_calculate_velocity_score(opportunity) ==
    LET stock_adj == IF opportunity.source_stock > 10 THEN 2000
                     ELSE IF opportunity.source_stock > 5 THEN 1000
                     ELSE IF opportunity.source_stock <= 1 THEN -2000
                     ELSE 0
        rating_adj == IF opportunity.source_seller_rating >= 450 THEN 1500
                      ELSE IF opportunity.source_seller_rating >= 400 THEN 1000
                      ELSE IF opportunity.source_seller_rating < 350 THEN -1500
                      ELSE 0
    IN  Max(0, Min(10000, 5000 + stock_adj + rating_adj))

\* _calculate_comprehensive_score raises TypeError or AttributeError:
\* float(net_profit), min(roi_percentage, 100), product_title.lower() or a
\* comparison of source_stock or source_seller_rating on None
ScoreRaises(opportunity) ==
    \/ IsNone(opportunity, "net_profit")
    \/ IsNone(opportunity, "roi_percentage")
    \/ IsNone(opportunity, "product_title")
    \/ IsNone(opportunity, "source_stock")
    \/ IsNone(opportunity, "source_seller_rating")

\* month: the month datetime.now() gives when get_seasonal_multiplier is
\* called without a date
_calculate_comprehensive_score(opportunity, preferences, month, rows) ==
    LET weights == _get_scoring_weights(preferences)
        risk_assessment == assess_comprehensive_risk(opportunity, rows)
        seasonal_multiplier == get_seasonal_multiplier(opportunity.product_title,
                                                       month)
        scores ==
            [profit   |-> Min((opportunity.net_profit * 2) \div 10, 10000),
             roi      |-> Min(opportunity.roi_percentage, 10000),
             risk     |-> Max(0, 10000 - risk_assessment.total_risk_score * 4),
             seasonal |-> Max(0, Min(10000, (seasonal_multiplier - 50) * 100)),
             velocity |-> _calculate_velocity_score(opportunity)]
        composite_score == scores.profit * weights.profit
                           + scores.roi * weights.roi
                           + scores.risk * weights.risk
                           + scores.seasonal * weights.seasonal
                           + scores.velocity * weights.velocity
    IN  [composite_score   |-> composite_score,
         individual_scores |-> scores,
         weights_used      |-> weights,
         risk_assessment   |-> risk_assessment]

\* user_preferences when rank_opportunities is called without them
DefaultPreferences ==
    [risk_tolerance |-> "medium", profit_priority |-> "balanced",
     time_horizon |-> "short", capital_available |-> 1000000]

\* a sort that puts the later of two equal composite scores first
CompositeGtTiesReversed(scored) ==
    [i \in 1..Len(scored) |-> [j \in 1..Len(scored) |->
        \/ scored[i].score_data.composite_score > scored[j].score_data.composite_score
        \/ /\ scored[i].score_data.composite_score = scored[j].score_data.composite_score
           /\ i > j]]

\* key=lambda x: x[1]['composite_score']
CompositeGt(scored) ==
    [i \in 1..Len(scored) |-> [j \in 1..Len(scored) |->
        scored[i].score_data.composite_score > scored[j].score_data.composite_score]]

\* history[i]: price_history rows held for opps[i] at the time of the call;
\* an opportunity whose scoring raises is logged and left out
rank_opportunities(opps, preferences, month, history) ==
    LET attempts == [i \in 1..Len(opps) |->
                        IF ScoreRaises(opps[i])
                        THEN [raised |-> TRUE, opportunity |-> opps[i]]
                        ELSE [raised |-> FALSE,
                              opportunity |-> opps[i],
                              score_data  |-> _calculate_comprehensive_score(
                                  opps[i], preferences, month, history[i])]]
        kept == SelectSeq(attempts, LAMBDA a : ~a.raised)
        scored == [k \in 1..Len(kept) |->
                      [opportunity |-> kept[k].opportunity,
                       score_data  |-> kept[k].score_data]]
    IN  StableSortDesc(scored, CompositeGt(scored))

\* capital check against the whole budget instead of what is left of it
EvaluateIgnoringUsedCapital(opportunity, score_data, criteria, available_capital) ==
    LET capital_required == opportunity.source_price + opportunity.source_shipping
    IN  IF capital_required > Get(criteria, "max_capital", 1000000)
        THEN [action |-> "skip", reason |-> "insufficient_capital",
              capital_required |-> capital_required, confidence |-> 0]
        ELSE IF score_data.composite_score
                    < Get(criteria, "min_composite_score", 600000)
        THEN [action |-> "skip", reason |-> "low_score",
              capital_required |-> capital_required, confidence |-> 200000]
        ELSE IF score_data.risk_assessment.total_risk_score
                    > Get(criteria, "max_risk_score", 1500)
        THEN [action |-> "skip", reason |-> "too_risky",
              capital_required |-> capital_required, confidence |-> 300000]
        ELSE IF opportunity.net_profit < Get(criteria, "min_profit", 10000)
        THEN [action |-> "skip", reason |-> "insufficient_profit",
              capital_required |-> capital_required, confidence |-> 100000]
        ELSE [action |-> "buy", reason |-> "meets_criteria",
              capital_required |-> capital_required,
              confidence |-> Min(score_data.composite_score, 950000),
              expected_profit |-> opportunity.net_profit,
              expected_roi |-> opportunity.roi_percentage]

\* capital_required taken as the source price alone
EvaluateCapitalWithoutShipping(opportunity, score_data, criteria, available_capital) ==
    LET capital_required == opportunity.source_price
    IN  IF capital_required > available_capital
        THEN [action |-> "skip", reason |-> "insufficient_capital",
              capital_required |-> capital_required, confidence |-> 0]
        ELSE IF score_data.composite_score
                    < Get(criteria, "min_composite_score", 600000)
        THEN [action |-> "skip", reason |-> "low_score",
              capital_required |-> capital_required, confidence |-> 200000]
        ELSE IF score_data.risk_assessment.total_risk_score
                    > Get(criteria, "max_risk_score", 1500)
        THEN [action |-> "skip", reason |-> "too_risky",
              capital_required |-> capital_required, confidence |-> 300000]
        ELSE IF opportunity.net_profit < Get(criteria, "min_profit", 10000)
        THEN [action |-> "skip", reason |-> "insufficient_profit",
              capital_required |-> capital_required, confidence |-> 100000]
        ELSE [action |-> "buy", reason |-> "meets_criteria",
              capital_required |-> capital_required,
              confidence |-> Min(score_data.composite_score, 950000),
              expected_profit |-> opportunity.net_profit,
              expected_roi |-> opportunity.roi_percentage]

\* the profit test made before the risk test
EvaluateProfitBeforeRisk(opportunity, score_data, criteria, available_capital) ==
    LET capital_required == opportunity.source_price + opportunity.source_shipping
    IN  IF capital_required > available_capital
        THEN [action |-> "skip", reason |-> "insufficient_capital",
              capital_required |-> capital_required, confidence |-> 0]
        ELSE IF score_data.composite_score
                    < Get(criteria, "min_composite_score", 600000)
        THEN [action |-> "skip", reason |-> "low_score",
              capital_required |-> capital_required, confidence |-> 200000]
        ELSE IF opportunity.net_profit < Get(criteria, "min_profit", 10000)
        THEN [action |-> "skip", reason |-> "insufficient_profit",
              capital_required |-> capital_required, confidence |-> 100000]
        ELSE IF score_data.risk_assessment.total_risk_score
                    > Get(criteria, "max_risk_score", 1500)
        THEN [action |-> "skip", reason |-> "too_risky",
              capital_required |-> capital_required, confidence |-> 300000]
        ELSE [action |-> "buy", reason |-> "meets_criteria",
              capital_required |-> capital_required,
              confidence |-> Min(score_data.composite_score, 950000),
              expected_profit |-> opportunity.net_profit,
              expected_roi |-> opportunity.roi_percentage]

\* _evaluate_single_opportunity raises TypeError at
\* float(source_price + source_shipping)
EvaluateRaises(opportunity) ==
    \/ IsNone(opportunity, "source_price")
    \/ IsNone(opportunity, "source_shipping")

\* confidence is in millionths: composite_score / 100 in 1/10000 units of
\* score is the same integer read in millionths
_evaluate_single_opportunity(opportunity, score_data, criteria, available_capital) ==
    LET capital_required == opportunity.source_price + opportunity.source_shipping
    IN  IF capital_required > available_capital
        THEN [action |-> "skip", reason |-> "insufficient_capital",
              capital_required |-> capital_required, confidence |-> 0]
        ELSE IF score_data.composite_score
                    < Get(criteria, "min_composite_score", 600000)
        THEN [action |-> "skip", reason |-> "low_score",
              capital_required |-> capital_required, confidence |-> 200000]
        ELSE IF score_data.risk_assessment.total_risk_score
                    > Get(criteria, "max_risk_score", 1500)
        THEN [action |-> "skip", reason |-> "too_risky",
              capital_required |-> capital_required, confidence |-> 300000]
        ELSE IF opportunity.net_profit < Get(criteria, "min_profit", 10000)
        THEN [action |-> "skip", reason |-> "insufficient_profit",
              capital_required |-> capital_required, confidence |-> 100000]
        ELSE [action |-> "buy", reason |-> "meets_criteria",
              capital_required |-> capital_required,
              confidence |-> Min(score_data.composite_score, 950000),
              expected_profit |-> opportunity.net_profit,
              expected_roi |-> opportunity.roi_percentage]

-----------------------------------------------------------------------------
(* Inputs *)

MaxSources == 2

MaxTargets == 2

Product(platform, product_id, title, price, shipping, seller_rating, stock) ==
    [platform |-> platform, product_id |-> product_id, title |-> title,
     price |-> price, currency |-> "GBP", shipping |-> shipping, url |-> "",
     seller_rating |-> seller_rating, stock |-> stock, category |-> "general",
     none_attrs |-> {}]

TitleTvANew == <<"T","V","-","A"," ","n","e","w">>
TitleTvA    == <<"t","v"," ","a">>
TitleTvB    == <<"t","v"," ","b">>
TitleTv     == <<"t","v">>
TitleTvXyz  == <<"t","v"," ","x","y","z">>
TitleNew    == <<"N","e","w","!">>
TitleIphone == <<"i","P","h","o","n","e">>

\* 'iPhone 12 Pro Max 256GB'
TitleIphone12 ==
    <<"i","P","h","o","n","e"," ","1","2"," ","P","r","o"," ","M","a","x"," ",
      "2","5","6","G","B">>

\* the two listings of test_opportunity_analysis
ScenarioSource == Product("ebay", "ebay-123", TitleIphone12, 600000, 5000, 450, 5)

ScenarioTarget == Product("amazon", "amazon-456", TitleIphone12, 800000, 0, 480, 10)

\* source listings of the find_opportunities runs
SourceCatalog ==
    { Product("ebay",   "1", TitleTvANew, 10000,  0,    450, 5),
      Product("ebay",   "2", TitleTvB,    10000,  0,    300, 5),
      Product("ebay",   "1", TitleTv,     10000,  0,    380, 0),
      Product("ebay",   "2", TitleTvA,    600000, 5000, 450, 5),
      Product("amazon", "3", <<>>,        0,      0,    0,   0),
      Product("etsy",   "3", TitleTvXyz,  10000,  0,    450, 10),
      Product("ebay",   "3", TitleTvA,    0,      0,    450, 5),
      [Product("ebay",  "2", TitleTvB,    10000,  0,    450, 0)
          EXCEPT !.none_attrs = {"stock"}],
      ScenarioSource }

\* target listings of the find_opportunities runs
TargetCatalog ==
    { Product("amazon", "A", TitleTvA,   40000,  0, 480, 10),
      Product("amazon", "B", TitleTvB,   800000, 0, 480, 10),
      Product("ebay",   "A", TitleTv,    20000,  0, 300, 1),
      Product("ebay",   "B", TitleTvXyz, 40000,  0, 480, 10),
      Product("etsy",   "C", TitleNew,   0,      0, 0,   0),
      Product("amazon", "C", TitleTvANew, 20000, 0, 480, 10),
      ScenarioTarget }

\* listings of the single _analyze_opportunity calls
AnalyzeSources ==
    { Product(pl, "s", TitleTvA, pr, sh, ra, st) :
        pl \in {"ebay", "amazon", "etsy"}, pr \in {0, 10000, 600000},
        sh \in {0, 5000}, ra \in {0, 380, 450}, st \in {0, 3, 10} }
    \cup { [Product("ebay", "s", TitleTvA, 10000, 0, 0, 10)
              EXCEPT !.none_attrs = {"seller_rating"}],
           [Product("ebay", "s", TitleTvA, 0, 0, 450, 10)
              EXCEPT !.none_attrs = {"price"}] }

AnalyzeTargets ==
    { Product(pl, "t", ti, pr, 0, ra, 10) :
        pl \in {"ebay", "amazon", "etsy"}, ti \in {TitleTvA, TitleIphone},
        pr \in {0, 20000, 40000, 800000}, ra \in {300, 480} }
    \cup { [Product("ebay", "t", TitleTvA, 40000, 0, 480, 10)
              EXCEPT !.category = "motors"],
           [Product("amazon", "t", TitleTvA, 40000, 0, 480, 10)
              EXCEPT !.category = "electronics"],
           [Product("amazon", "t", TitleTvA, 40000, 0, 480, 10)
              EXCEPT !.category = "books"] }

\* ProfitThresholds: the defaults of models.py and a permissive configuration
ThresholdChoices ==
    { [min_profit_gbp |-> 10000, min_roi_percentage |-> [num |-> 25, den |-> 1],
       max_risk_score |-> 700, min_seller_rating |-> 350],
      [min_profit_gbp |-> 5000, min_roi_percentage |-> [num |-> 10, den |-> 1],
       max_risk_score |-> 1000, min_seller_rating |-> 0] }

SeqsUpTo(S, n) == UNION {[1..k -> S] : k \in 0..n}

MaxOpps == 3

MaxRankOpps == 2

MaxInvocations == 2

MaxTicks == 1

\* an ArbitrageOpportunity handed to the ranker; the id is given by WithIds
Opportunity(source_platform, target_platform, product_title, source_price, source_shipping, target_price, net_profit, roi_percentage, source_stock, source_seller_rating) ==
    [opportunity_id       |-> 0,
     source_platform      |-> source_platform,
     target_platform      |-> target_platform,
     product_title        |-> product_title,
     source_price         |-> source_price,
     target_price         |-> target_price,
     source_url           |-> "",
     target_url           |-> "",
     source_shipping      |-> source_shipping,
     target_shipping      |-> 0,
     source_fees          |-> 0,
     target_fees          |-> 0,
     net_profit           |-> net_profit,
     roi_percentage       |-> roi_percentage,
     source_seller_rating |-> source_seller_rating,
     target_seller_rating |-> 0,
     source_stock         |-> source_stock,
     target_demand_score  |-> 0,
     risk_score           |-> 0,
     status               |-> "new",
     notes                |-> <<>>,
     none_attrs           |-> {}]

\* well-formed opportunities of the ranking and decision runs
OpportunityCatalog ==
    { Opportunity("ebay", "amazon", TitleTvA, 55000, 5000, 150000, 50000,
                  10000, 5, 450),
      Opportunity("ebay", "amazon", TitleIphone, 55000, 5000, 150000, 50000,
                  10000, 5, 420),
      Opportunity("ebay", "amazon", TitleTvB, 40000, 0, 60000, 12000,
                  2000, 1, 300),
      Opportunity("ebay", "ebay", TitleTvXyz, 400000, 0, 600000, 100000,
                  15000, 20, 450),
      Opportunity("amazon", "amazon", TitleTv, 9000, 0, 18000, 9000,
                  10000, 20, 450) }

\* opportunities holding None where a value is expected
PlatformlessOpportunity ==
    [Opportunity("ebay", "amazon", TitleTvA, 55000, 5000, 150000, 50000,
                 10000, 5, 450) EXCEPT !.none_attrs = {"source_platform"}]

RoilessOpportunity ==
    [Opportunity("ebay", "amazon", TitleTvB, 55000, 5000, 150000, 50000,
                 0, 5, 450) EXCEPT !.none_attrs = {"roi_percentage"}]

PricelessOpportunity ==
    [Opportunity("ebay", "amazon", TitleTvA, 0, 5000, 150000, 50000,
                 10000, 5, 450) EXCEPT !.none_attrs = {"source_price"}]

\* opportunities of the rank_opportunities runs
RankCatalog ==
    OpportunityCatalog \cup {PlatformlessOpportunity, RoilessOpportunity}

\* opportunities of the make_automated_decisions runs
DecideCatalog == OpportunityCatalog \cup {PricelessOpportunity}

\* opportunity ids are unique (uuid4): the position in the input list
WithIds(opps) == [i \in 1..Len(opps) |-> [opps[i] EXCEPT !.opportunity_id = i]]

PreferenceChoices ==
    { [risk_tolerance |-> rt, profit_priority |-> pp, time_horizon |-> "short",
       capital_available |-> 1000000] :
        rt \in {"low", "medium", "high"}, pp \in {"profit", "roi", "balanced"} }

EmptyDict == [k \in {} |-> 0]

\* decision_criteria dicts; a missing key takes the default of the code
CriteriaChoices ==
    { EmptyDict,
      [max_capital |-> 100000],
      [max_capital |-> 100000, min_composite_score |-> 400000,
       max_risk_score |-> 1000, min_profit |-> 60000],
      [max_capital |-> 500000, min_composite_score |-> 400000],
      [max_capital |-> 70000, min_composite_score |-> 0, min_profit |-> 0] }

\* numbers of price_history rows the database may hold for a product
HistoryRows == {0, 5}

DecideMonths == {10, 11}

IdleAnalyzer ==
    /\ source_products = <<>>
    /\ target_products = <<>>
    /\ profit_thresholds = CHOOSE th \in ThresholdChoices : th.max_risk_score = 700
    /\ matches = <<>>
    /\ match_idx = 0
    /\ built = <<>>
    /\ opportunities = <<>>

\* the ranker and the decision engine are not running
IdleRankerAndDecisions ==
    /\ candidate_opps = <<>>
    /\ user_preferences = DefaultPreferences
    /\ decision_criteria = EmptyDict
    /\ clock_month = 1
    /\ clock_ticks = 0
    /\ rankings = <<>>
    /\ price_history_rows = <<>>
    /\ ranked_opportunities = <<>>
    /\ decide_idx = 0
    /\ total_capital_used = 0
    /\ decisions = <<>>

\* the database is empty and no opportunity object is held
IdleServices ==
    /\ db_opportunities = EmptyDict
    /\ db_price_history = <<>>
    /\ mem_opportunities = EmptyDict
    /\ db_now = 0
    /\ seasonal_calls = <<>>
    /\ notify_now = 0
    /\ last_notification_time = EmptyDict
    /\ alerts = <<>>
    /\ bot = [running |-> FALSE, stopped |-> FALSE, stopped_in_loop |-> FALSE,
              keyword |-> 0, scans |-> 0, scans_after_stop |-> 0,
              scans_after_loop_stop |-> 0]

-----------------------------------------------------------------------------
(* find_opportunities, one step per loop iteration *)

Init ==
    /\ pc = "start"
    /\ IdleServices
    /\ source_products \in SeqsUpTo(SourceCatalog, MaxSources)
    /\ target_products \in SeqsUpTo(TargetCatalog, MaxTargets)
    /\ profit_thresholds \in ThresholdChoices
    /\ matches = <<>>
    /\ match_idx = 0
    /\ built = <<>>
    /\ opportunities = <<>>
    /\ IdleRankerAndDecisions

\* matches = self._match_products(source_products, target_products)
MatchProducts ==
    /\ pc = "start"
    /\ matches' = _match_products(source_products, target_products)
    /\ match_idx' = 1
    /\ pc' = "loop"
    /\ UNCHANGED <<source_products, target_products, profit_thresholds,
                   built, opportunities>>
    /\ UNCHANGED <<ranker_vars, decision_vars, service_vars>>

\* if similarity < 0.7: continue
SkipLowSimilarity ==
    /\ pc = "loop"
    /\ match_idx <= Len(matches)
    /\ ~SimilarityGate(matches[match_idx].similarity)
    /\ match_idx' = match_idx + 1
    /\ UNCHANGED <<pc, source_products, target_products, profit_thresholds,
                   matches, built, opportunities>>
    /\ UNCHANGED <<ranker_vars, decision_vars, service_vars>>

\* the opportunity the loop body builds for the current match
CurrentOpportunity ==
    _analyze_opportunity(matches[match_idx].source, matches[match_idx].target,
                         Len(built) + 1)

BuiltEntry(opportunity) ==
    [source |-> matches[match_idx].source, target |-> matches[match_idx].target,
     similarity |-> matches[match_idx].similarity, opportunity |-> opportunity]

\* the exception raised while the loop body builds the opportunity
CurrentRaises ==
    AnalyzeRaises(matches[match_idx].source, matches[match_idx].target)

\* _analyze_opportunity raises; find_opportunities has no handler, so the
\* exception leaves the call and no list is returned
RaiseFromAnalyze ==
    /\ pc = "loop"
    /\ match_idx <= Len(matches)
    /\ SimilarityGate(matches[match_idx].similarity)
    /\ CurrentRaises
    /\ pc' = "raised"
    /\ UNCHANGED <<source_products, target_products, profit_thresholds,
                   matches, match_idx, built, opportunities>>
    /\ UNCHANGED <<ranker_vars, decision_vars, service_vars>>

\* opportunity built and appended
AcceptOpportunity ==
    /\ pc = "loop"
    /\ match_idx <= Len(matches)
    /\ SimilarityGate(matches[match_idx].similarity)
    /\ ~CurrentRaises
    /\ _is_profitable_opportunity(CurrentOpportunity, profit_thresholds)
    /\ opportunities' = Append(opportunities, CurrentOpportunity)
    /\ built' = Append(built, BuiltEntry(CurrentOpportunity))
    /\ match_idx' = match_idx + 1
    /\ UNCHANGED <<pc, source_products, target_products, profit_thresholds, matches>>
    /\ UNCHANGED <<ranker_vars, decision_vars, service_vars>>

\* opportunity built and not appended
RejectOpportunity ==
    /\ pc = "loop"
    /\ match_idx <= Len(matches)
    /\ SimilarityGate(matches[match_idx].similarity)
    /\ ~CurrentRaises
    /\ ~_is_profitable_opportunity(CurrentOpportunity, profit_thresholds)
    /\ built' = Append(built, BuiltEntry(CurrentOpportunity))
    /\ match_idx' = match_idx + 1
    /\ UNCHANGED <<pc, source_products, target_products, profit_thresholds,
                   matches, opportunities>>
    /\ UNCHANGED <<ranker_vars, decision_vars, service_vars>>

\* a key under which no opportunity comes before another: the list stays as
\* it was appended
NetProfitKeyIgnored(opps) ==
    [i \in 1..Len(opps) |-> [j \in 1..Len(opps) |-> FALSE]]

\* key=lambda x: x.net_profit
NetProfitGt(opps) ==
    [i \in 1..Len(opps) |-> [j \in 1..Len(opps) |->
        opps[i].net_profit > opps[j].net_profit]]

\* opportunities.sort(key=net_profit, reverse=True); return opportunities
SortAndReturn ==
    /\ pc = "loop"
    /\ match_idx > Len(matches)
    /\ opportunities' = StableSortDesc(opportunities, NetProfitGt(opportunities))
    /\ pc' = "done"
    /\ UNCHANGED <<source_products, target_products, profit_thresholds,
                   matches, match_idx, built>>
    /\ UNCHANGED <<ranker_vars, decision_vars, service_vars>>

Next ==
    \/ MatchProducts
    \/ SkipLowSimilarity
    \/ RaiseFromAnalyze
    \/ AcceptOpportunity
    \/ RejectOpportunity
    \/ SortAndReturn

Spec == Init /\ [][Next]_vars

-----------------------------------------------------------------------------
(* _analyze_opportunity on one source listing and one target listing *)

InitAnalyze ==
    /\ pc = "start"
    /\ IdleServices
    /\ source_products \in {<<s>> : s \in AnalyzeSources}
    /\ target_products \in {<<t>> : t \in AnalyzeTargets}
    /\ profit_thresholds \in {CHOOSE th \in ThresholdChoices : th.max_risk_score = 700}
    /\ matches = <<>>
    /\ match_idx = 0
    /\ built = <<>>
    /\ opportunities = <<>>
    /\ IdleRankerAndDecisions

AnalyzeOpportunity ==
    /\ pc = "start"
    /\ ~AnalyzeRaises(source_products[1], target_products[1])
    /\ built' = <<[source |-> source_products[1], target |-> target_products[1],
                   similarity |-> Similarity(source_products[1], target_products[1]),
                   opportunity |-> _analyze_opportunity(source_products[1],
                                                        target_products[1], 1)]>>
    /\ pc' = "done"
    /\ UNCHANGED <<source_products, target_products, profit_thresholds,
                   matches, match_idx, opportunities>>
    /\ UNCHANGED <<ranker_vars, decision_vars, service_vars>>

\* the call raises instead of returning an opportunity
AnalyzeOpportunityRaises ==
    /\ pc = "start"
    /\ AnalyzeRaises(source_products[1], target_products[1])
    /\ pc' = "raised"
    /\ UNCHANGED <<source_products, target_products, profit_thresholds,
                   matches, match_idx, built, opportunities>>
    /\ UNCHANGED <<ranker_vars, decision_vars, service_vars>>

NextAnalyze == AnalyzeOpportunity \/ AnalyzeOpportunityRaises

SpecAnalyze == InitAnalyze /\ [][NextAnalyze]_vars

-----------------------------------------------------------------------------
(* rank_opportunities called repeatedly on the same opportunities and       *)
(* preferences while the wall clock advances                                *)

InitRank ==
    /\ pc = "rank"
    /\ IdleServices
    /\ IdleAnalyzer
    /\ candidate_opps \in {WithIds(l) : l \in SeqsUpTo(RankCatalog, MaxRankOpps)}
    /\ user_preferences \in PreferenceChoices
    /\ clock_month \in 1..12
    /\ clock_ticks = 0
    /\ rankings = <<>>
    /\ price_history_rows \in [1..Len(candidate_opps) -> HistoryRows]
    /\ decision_criteria = EmptyDict
    /\ ranked_opportunities = <<>>
    /\ decide_idx = 0
    /\ total_capital_used = 0
    /\ decisions = <<>>

RankOpportunities ==
    /\ Len(rankings) < MaxInvocations
    /\ rankings' = Append(rankings,
                          rank_opportunities(candidate_opps, user_preferences,
                                             clock_month, price_history_rows))
    /\ UNCHANGED <<pc, service_vars, analyzer_vars, candidate_opps, user_preferences,
                   clock_month, clock_ticks, price_history_rows, decision_vars>>

\* a month passes between two calls
ClockTick ==
    /\ clock_ticks < MaxTicks
    /\ clock_month' = (clock_month % 12) + 1
    /\ clock_ticks' = clock_ticks + 1
    /\ UNCHANGED <<pc, service_vars, analyzer_vars, candidate_opps, user_preferences,
                   rankings, price_history_rows, decision_vars>>

NextRank == RankOpportunities \/ ClockTick

SpecRank == InitRank /\ [][NextRank]_vars

-----------------------------------------------------------------------------
(* make_automated_decisions, one step per loop iteration *)

InitDecide ==
    /\ pc = "start"
    /\ IdleServices
    /\ IdleAnalyzer
    /\ candidate_opps \in {WithIds(l) : l \in SeqsUpTo(DecideCatalog, MaxOpps)}
    /\ user_preferences = DefaultPreferences
    /\ clock_month \in DecideMonths
    /\ clock_ticks = 0
    /\ rankings = <<>>
    /\ price_history_rows = <<>>
    /\ decision_criteria \in CriteriaChoices
    /\ ranked_opportunities = <<>>
    /\ decide_idx = 0
    /\ total_capital_used = 0
    /\ decisions = <<>>

\* decision_criteria.get('max_capital', 1000.0)
available_capital == Get(decision_criteria, "max_capital", 1000000)

\* ranked_opportunities = self.ranker.rank_opportunities(opportunities)
StartDecisions ==
    /\ pc = "start"
    /\ \E history \in [1..Len(candidate_opps) -> HistoryRows] :
          ranked_opportunities' = rank_opportunities(candidate_opps,
                                      DefaultPreferences, clock_month, history)
    /\ total_capital_used' = 0
    /\ decisions' = <<>>
    /\ decide_idx' = 1
    /\ pc' = "deciding"
    /\ UNCHANGED <<service_vars, analyzer_vars, ranker_vars, decision_criteria>>

\* the decision of the current loop iteration
CurrentDecision ==
    _evaluate_single_opportunity(ranked_opportunities[decide_idx].opportunity,
                                 ranked_opportunities[decide_idx].score_data,
                                 decision_criteria,
                                 available_capital - total_capital_used)

DecisionEntry(decision) ==
    [opportunity_id |-> ranked_opportunities[decide_idx].opportunity.opportunity_id,
     decision       |-> decision,
     score_data     |-> ranked_opportunities[decide_idx].score_data]

\* the loop left once half of the capital is used
CapitalExhaustedAtHalf(used) == used * 100 >= available_capital * 50

\* if total_capital_used >= available_capital * 0.95: break
CapitalExhausted(used) == used * 100 >= available_capital * 95

\* the exception raised by the evaluation of the current loop iteration
CurrentEvaluationRaises ==
    EvaluateRaises(ranked_opportunities[decide_idx].opportunity)

\* except Exception: log and continue, nothing appended, no break test
DecideRaises ==
    /\ pc = "deciding"
    /\ decide_idx <= Len(ranked_opportunities)
    /\ CurrentEvaluationRaises
    /\ decide_idx' = decide_idx + 1
    /\ UNCHANGED <<pc, service_vars, analyzer_vars, ranker_vars, decision_criteria,
                   ranked_opportunities, total_capital_used, decisions>>

DecideBuy ==
    /\ pc = "deciding"
    /\ decide_idx <= Len(ranked_opportunities)
    /\ ~CurrentEvaluationRaises
    /\ CurrentDecision.action = "buy"
    /\ total_capital_used' = total_capital_used + CurrentDecision.capital_required
    /\ decisions' = Append(decisions, DecisionEntry(CurrentDecision))
    /\ decide_idx' = decide_idx + 1
    /\ pc' = IF CapitalExhausted(total_capital_used') THEN "returned" ELSE "deciding"
    /\ UNCHANGED <<service_vars, analyzer_vars, ranker_vars, decision_criteria,
                   ranked_opportunities>>

DecideSkip ==
    /\ pc = "deciding"
    /\ decide_idx <= Len(ranked_opportunities)
    /\ ~CurrentEvaluationRaises
    /\ CurrentDecision.action # "buy"
    /\ decisions' = Append(decisions, DecisionEntry(CurrentDecision))
    /\ decide_idx' = decide_idx + 1
    /\ pc' = IF CapitalExhausted(total_capital_used) THEN "returned" ELSE "deciding"
    /\ UNCHANGED <<service_vars, analyzer_vars, ranker_vars, decision_criteria,
                   ranked_opportunities, total_capital_used>>

\* the ranked list is exhausted: return decisions
ReturnDecisions ==
    /\ pc = "deciding"
    /\ decide_idx > Len(ranked_opportunities)
    /\ pc' = "returned"
    /\ UNCHANGED <<service_vars, analyzer_vars, ranker_vars, decision_vars>>

NextDecide ==
    \/ StartDecisions
    \/ DecideRaises
    \/ DecideBuy
    \/ DecideSkip
    \/ ReturnDecisions

SpecDecide == InitDecide /\ [][NextDecide]_vars

-----------------------------------------------------------------------------
(* Properties of matching and opportunity construction *)

UniqueIds(products) ==
    \A i, j \in 1..Len(products) :
        products[i].product_id = products[j].product_id => i = j

\* C2: on collections with unique product ids, no source product id and no
\* target product id appears in more than one pair returned by
\* _match_products.
C2_MatchingInjective ==
    (UniqueIds(source_products) /\ UniqueIds(target_products)) =>
        \A i, j \in 1..Len(matches) :
            i # j => /\ matches[i].source.product_id # matches[j].source.product_id
                     /\ matches[i].target.product_id # matches[j].target.product_id

\* two pairs returned although the candidates held a contested listing
C2_Witness ==
    /\ pc = "loop"
    /\ UniqueIds(source_products) /\ UniqueIds(target_products)
    /\ Len(matches) = 2
    /\ Len(CandidateMatches(source_products, target_products)) > 2

\* C3: every opportunity built by _analyze_opportunity has
\* net_profit = target.price - (source.price + source.shipping
\*                              + source_fees + target_fees),
\* with the fees stored on that opportunity.
C3_NetProfitIdentity ==
    \A k \in 1..Len(built) :
        LET b == built[k] IN
        b.opportunity.net_profit =
            b.target.price - (b.source.price + b.source.shipping
                              + b.opportunity.source_fees
                              + b.opportunity.target_fees)

\* an opportunity with a shipping cost and a sell-side fee
C3_Witness ==
    \E k \in 1..Len(built) :
        /\ built[k].source.shipping > 0
        /\ built[k].opportunity.target_fees > 0
        /\ built[k].opportunity.net_profit > 0

\* C4: every pair find_opportunities turns into an opportunity has normalized
\* titles of similarity at least 0.7, and every returned opportunity comes
\* from such a pair.
C4_BuiltPairsSimilar ==
    /\ \A k \in 1..Len(built) :
          RatGe(SequenceMatcherRatio(_normalize_title(built[k].source.title),
                                     _normalize_title(built[k].target.title)),
                [num |-> 7, den |-> 10])
    /\ \A i \in 1..Len(opportunities) :
          \E k \in 1..Len(built) : built[k].opportunity = opportunities[i]

\* a selected pair below 0.7 was passed over and another pair was built
C4_Witness ==
    /\ pc = "done"
    /\ Len(built) > 0
    /\ \E i \in 1..Len(matches) :
          /\ RatGt(matches[i].similarity, [num |-> 6, den |-> 10])
          /\ ~RatGe(matches[i].similarity, [num |-> 7, den |-> 10])

\* C5: the inline risk_score of every built opportunity lies in [0, 10].
C5_RiskScoreInRange ==
    \A k \in 1..Len(built) :
        /\ built[k].opportunity.risk_score >= 0
        /\ built[k].opportunity.risk_score <= 1000

\* zero stock, zero ratings and a markup above 3x: the contributions sum to
\* more than 10 and the stored score is 10
C5_Witness ==
    \E k \in 1..Len(built) :
        /\ built[k].source.stock = 0
        /\ built[k].source.seller_rating = 0
        /\ built[k].target.price > 3 * built[k].source.price
        /\ RawRiskScore(built[k].source, built[k].target,
                        built[k].opportunity.net_profit) > 1000
        /\ built[k].opportunity.risk_score = 1000

\* total cost recomputed from the listing and the stored fees
BuiltTotalCost(b) ==
    b.source.price + b.source.shipping + b.opportunity.source_fees
    + b.opportunity.target_fees

\* C6: roi_percentage is a defined number (no division by zero), it is 0
\* whenever total_cost is 0, and it is the ratio net_profit * 100 / total_cost
\* whenever total_cost > 0.
C6_RoiGuarded ==
    \A k \in 1..Len(built) :
        LET b == built[k]
            roi == b.opportunity.roi_percentage
        IN  /\ roi.den > 0
            /\ BuiltTotalCost(b) = 0 => roi.num = 0
            /\ BuiltTotalCost(b) > 0 =>
                  roi = [num |-> b.opportunity.net_profit * 100,
                         den |-> BuiltTotalCost(b)]

\* an opportunity whose total cost is 0 while the target price is not
C6_Witness ==
    \E k \in 1..Len(built) :
        /\ BuiltTotalCost(built[k]) = 0
        /\ built[k].target.price > 0
        /\ built[k].opportunity.roi_percentage.num = 0

MeetsAllThresholds(opportunity) ==
    /\ opportunity.net_profit >= profit_thresholds.min_profit_gbp
    /\ RatGe(opportunity.roi_percentage, profit_thresholds.min_roi_percentage)
    /\ opportunity.risk_score <= profit_thresholds.max_risk_score
    /\ opportunity.source_seller_rating >= profit_thresholds.min_seller_rating

InResult(opportunity) ==
    \E i \in 1..Len(opportunities) : opportunities[i] = opportunity

-----------------------------------------------------------------------------
(* Properties of ranking and automated decisions *)

RECURSIVE BuyCapital(_)
\* sum of capital_required over the 'buy' decisions of a decision list
BuyCapital(ds) ==
    IF ds = <<>> THEN 0
    ELSE (IF Head(ds).decision.action = "buy"
          THEN Head(ds).decision.capital_required ELSE 0) + BuyCapital(Tail(ds))

\* C1: after every processed opportunity the capital_required of the 'buy'
\* decisions taken so far sums to at most max_capital.
C1_CapitalNeverExceeded ==
    /\ BuyCapital(decisions) <= available_capital
    /\ total_capital_used = BuyCapital(decisions)

\* a purchase was made and a later opportunity no longer fitted the budget
C1_Witness ==
    /\ BuyCapital(decisions) > 0
    /\ \E i, j \in 1..Len(decisions) :
          /\ i < j
          /\ decisions[i].decision.action = "buy"
          /\ decisions[j].decision.reason = "insufficient_capital"
          /\ decisions[j].decision.capital_required <= available_capital

\* the opportunity ids of a ranking, in order
RankingOrder(ranking) ==
    [k \in 1..Len(ranking) |-> ranking[k].opportunity.opportunity_id]

\* C7: two rank_opportunities calls on identical opportunities and identical
\* preferences return the opportunities in the identical order.
C7_RankDeterministic ==
    \A i, j \in 1..Len(rankings) :
        RankingOrder(rankings[i]) = RankingOrder(rankings[j])

\* the opportunity a decision entry is about
DecidedOpportunity(entry) ==
    candidate_opps[entry.opportunity_id]

\* C9: every decision is the first applicable outcome of the fixed order
\* insufficient_capital, low_score (confidence 0.2), too_risky,
\* insufficient_profit, buy (confidence min(composite_score/100, 0.95)),
\* where the capital test is against the capital left by the earlier buys.
C9_DecisionOrder ==
    \A k \in 1..Len(decisions) :
        LET o == DecidedOpportunity(decisions[k])
            sd == decisions[k].score_data
            d == decisions[k].decision
            remaining == available_capital - BuyCapital(SubSeq(decisions, 1, k - 1))
            min_score == Get(decision_criteria, "min_composite_score", 600000)
            max_risk == Get(decision_criteria, "max_risk_score", 1500)
            min_profit == Get(decision_criteria, "min_profit", 10000)
        IN  /\ d.capital_required = o.source_price + o.source_shipping
            /\ IF d.capital_required > remaining
               THEN d.action = "skip" /\ d.reason = "insufficient_capital"
               ELSE IF sd.composite_score < min_score
               THEN d.action = "skip" /\ d.reason = "low_score"
                    /\ d.confidence = 200000
               ELSE IF sd.risk_assessment.total_risk_score > max_risk
               THEN d.action = "skip" /\ d.reason = "too_risky"
               ELSE IF o.net_profit < min_profit
               THEN d.action = "skip" /\ d.reason = "insufficient_profit"
               ELSE /\ d.action = "buy"
                    /\ d.confidence = Min(sd.composite_score, 950000)

\* one run with a buy, an insufficient_capital skip and a low_score skip
C9_Witness ==
    /\ pc = "returned"
    /\ \E i, j, k \in 1..Len(decisions) :
          /\ decisions[i].decision.action = "buy"
          /\ decisions[i].decision.confidence
                = decisions[i].score_data.composite_score
          /\ decisions[i].decision.confidence < 950000
          /\ decisions[j].decision.reason = "insufficient_capital"
          /\ decisions[k].decision.reason = "low_score"
          /\ decisions[k].decision.confidence = 200000

\* Scenario C: max_capital = 100 and two ranked opportunities of
\* capital_required = 60 that both meet the score, risk and profit criteria
ScenarioC ==
    /\ "max_capital" \in DOMAIN decision_criteria
    /\ decision_criteria.max_capital = 100000
    /\ Len(candidate_opps) = 2
    /\ Len(ranked_opportunities) = 2
    /\ \A k \in 1..Len(ranked_opportunities) :
          LET o == ranked_opportunities[k].opportunity
              sd == ranked_opportunities[k].score_data
          IN  /\ o.source_price + o.source_shipping = 60000
              /\ sd.composite_score
                    >= Get(decision_criteria, "min_composite_score", 600000)
              /\ sd.risk_assessment.total_risk_score
                    <= Get(decision_criteria, "max_risk_score", 1500)
              /\ o.net_profit >= Get(decision_criteria, "min_profit", 10000)

\* C10: in Scenario C the returned decision list has exactly two entries, one
\* 'buy' and one 'skip' with reason insufficient_capital.
C10_ScenarioC ==
    (ScenarioC /\ pc = "returned") =>
        /\ Len(decisions) = 2
        /\ \E i, j \in 1..2 :
              /\ i # j
              /\ decisions[i].decision.action = "buy"
              /\ decisions[j].decision.action = "skip"
              /\ decisions[j].decision.reason = "insufficient_capital"

\* Scenario C has run to its end
C10_Witness ==
    /\ ScenarioC
    /\ pc = "returned"
    /\ Len(decisions) = 2

-----------------------------------------------------------------------------
(* DatabaseManager (src/src/database.py): the opportunities and             *)
(* price_history tables.  Timestamps are clock ticks, TicksPerDay ticks to  *)
(* the day.  The alerts table is never written by the program and stays     *)
(* empty, so the DELETE on it changes nothing.                              *)

MaxDbTicks == 3

MaxHistoryRows == 1

TicksPerDay == 2

\* opportunity ids (uuid4 strings)
DbIds == {1, 2}

\* values an operator passes as status
StatusValues == {"new", "acted", "purchased", "skipped", "expired"}

\* values an operator passes as notes; "" stands for None as well
NotesValues == {"", "note"}

\* values passed as days
RetentionDays == {0, 1}

\* created_at is stored as datetime.isoformat(), 'T' between date and time,
\* while the cutoff is bound by sqlite3 as 'date time' with a space.  SQLite
\* compares the two as text: on equal dates 'T' orders the stored value after
\* the cutoff, so only the calendar day decides.
CreatedBefore(created_at, cutoff_date) ==
    created_at \div TicksPerDay < cutoff_date \div TicksPerDay

\* recorded_at defaults to CURRENT_TIMESTAMP ('date time'): chronological
RecordedBefore(recorded_at, cutoff_date) == recorded_at < cutoff_date

\* INSERT OR REPLACE INTO opportunities: the row with this primary key is
\* replaced by the object's fields
InsertOrReplace(table, rows, ids) ==
    [i \in DOMAIN table \cup ids |-> IF i \in ids THEN rows[i] ELSE table[i]]

\* the database is empty, no object is held, the clock is at 0
InitDb ==
    /\ pc = "db"
    /\ IdleAnalyzer
    /\ IdleRankerAndDecisions
    /\ IdleServices

\* ArbitrageOpportunity(...): status defaults to 'new', notes to '',
\* created_at to datetime.now()
CreateOpportunity ==
    /\ \E id \in DbIds \ DOMAIN mem_opportunities :
          mem_opportunities' =
              [i \in DOMAIN mem_opportunities \cup {id} |->
                  IF i = id
                  THEN [status |-> "new", notes |-> "", created_at |-> db_now]
                  ELSE mem_opportunities[i]]
    /\ UNCHANGED <<notify_now, last_notification_time, alerts, bot>>
    /\ UNCHANGED <<pc, seasonal_calls, analyzer_vars, ranker_vars, decision_vars,
                   db_opportunities, db_price_history, db_now>>

SaveOpportunity ==
    /\ \E id \in DOMAIN mem_opportunities :
          db_opportunities' = InsertOrReplace(db_opportunities,
                                              mem_opportunities, {id})
    /\ UNCHANGED <<notify_now, last_notification_time, alerts, bot>>
    /\ UNCHANGED <<pc, seasonal_calls, analyzer_vars, ranker_vars, decision_vars,
                   db_price_history, mem_opportunities, db_now>>

\* an empty list returns 0 before the database is opened
SaveOpportunitiesBatch ==
    /\ \E ids \in SUBSET DOMAIN mem_opportunities :
          db_opportunities' = InsertOrReplace(db_opportunities,
                                              mem_opportunities, ids)
    /\ UNCHANGED <<notify_now, last_notification_time, alerts, bot>>
    /\ UNCHANGED <<pc, seasonal_calls, analyzer_vars, ranker_vars, decision_vars,
                   db_price_history, mem_opportunities, db_now>>

\* UPDATE opportunities SET status = ? [, notes = ?] WHERE opportunity_id = ?
UpdateOpportunityStatus ==
    /\ \E id \in DbIds, status \in StatusValues, notes \in NotesValues :
          db_opportunities' =
              IF id \in DOMAIN db_opportunities
              THEN [db_opportunities EXCEPT
                      ![id].status = status,
                      ![id].notes = IF notes # "" THEN notes ELSE @]
              ELSE db_opportunities
    /\ UNCHANGED <<notify_now, last_notification_time, alerts, bot>>
    /\ UNCHANGED <<pc, seasonal_calls, analyzer_vars, ranker_vars, decision_vars,
                   db_price_history, mem_opportunities, db_now>>

\* one row inserted with recorded_at = CURRENT_TIMESTAMP
SavePriceHistory ==
    /\ Len(db_price_history) < MaxHistoryRows
    /\ db_price_history' = Append(db_price_history, db_now)
    /\ UNCHANGED <<notify_now, last_notification_time, alerts, bot>>
    /\ UNCHANGED <<pc, seasonal_calls, analyzer_vars, ranker_vars, decision_vars,
                   db_opportunities, mem_opportunities, db_now>>

\* rows a DELETE ... WHERE created_at < ? AND status NOT IN ('acted',
\* 'purchased') removes
DeletedByCleanup(row, cutoff_date) ==
    /\ CreatedBefore(row.created_at, cutoff_date)
    /\ row.status \notin {"acted", "purchased"}

cleanup_old_records(days) ==
    /\ LET cutoff_date == db_now - days * TicksPerDay
           kept == {i \in DOMAIN db_opportunities :
                       ~DeletedByCleanup(db_opportunities[i], cutoff_date)}
       IN  /\ db_opportunities' = [i \in kept |-> db_opportunities[i]]
           /\ db_price_history' =
                 SelectSeq(db_price_history,
                           LAMBDA r : ~RecordedBefore(r, cutoff_date))
    /\ UNCHANGED <<notify_now, last_notification_time, alerts, bot>>
    /\ UNCHANGED <<pc, seasonal_calls, analyzer_vars, ranker_vars, decision_vars,
                   mem_opportunities, db_now>>

CleanupOldRecords == \E days \in RetentionDays : cleanup_old_records(days)

\* time passes
DbClockTick ==
    /\ db_now < MaxDbTicks
    /\ db_now' = db_now + 1
    /\ UNCHANGED <<notify_now, last_notification_time, alerts, bot>>
    /\ UNCHANGED <<pc, seasonal_calls, analyzer_vars, ranker_vars, decision_vars,
                   db_opportunities, db_price_history, mem_opportunities>>

NextDb ==
    \/ CreateOpportunity
    \/ SaveOpportunity
    \/ SaveOpportunitiesBatch
    \/ UpdateOpportunityStatus
    \/ SavePriceHistory
    \/ CleanupOldRecords
    \/ DbClockTick

SpecDb == InitDb /\ [][NextDb]_vars

-----------------------------------------------------------------------------
(* Properties of the stored opportunities *)

TerminalStatuses == {"acted", "purchased", "skipped", "expired"}

\* C11: a row enters the opportunities table with status 'new', and a stored
\* row whose status is acted, purchased, skipped or expired keeps that status
\* for as long as it is stored.
C11_StatusLifecycle ==
    [][\A id \in DbIds :
          /\ (id \notin DOMAIN db_opportunities /\ id \in DOMAIN db_opportunities')
                => db_opportunities'[id].status = "new"
          /\ (/\ id \in DOMAIN db_opportunities
              /\ id \in DOMAIN db_opportunities'
              /\ db_opportunities[id].status \in TerminalStatuses)
                => db_opportunities'[id].status = db_opportunities[id].status]_vars

-----------------------------------------------------------------------------
(* Properties of malformed listings *)

\* a listing with a missing or empty title or a non-positive price
Malformed(product) == product.title = <<>> \/ product.price <= 0

\* no returned opportunity was built from a malformed listing
ReturnedWellFormed ==
    \A k \in 1..Len(built) :
        InResult(built[k].opportunity) =>
            ~Malformed(built[k].source) /\ ~Malformed(built[k].target)

\* C12: no pair returned by _match_products and no opportunity returned by
\* find_opportunities involves a listing with an empty title or a
\* non-positive price.
C12_MalformedExcluded ==
    /\ \A i \in 1..Len(matches) :
          ~Malformed(matches[i].source) /\ ~Malformed(matches[i].target)
    /\ ReturnedWellFormed

-----------------------------------------------------------------------------
(* Properties of the comprehensive risk assessment *)

\* C13: the total_risk_score returned by assess_comprehensive_risk lies in
\* [0, 10] for every opportunity that is ranked.
C13_ComprehensiveRiskInRange ==
    \A i \in 1..Len(rankings) :
        \A k \in 1..Len(rankings[i]) :
            LET total == rankings[i][k].score_data.risk_assessment.total_risk_score
            IN  total >= 0 /\ total <= 1000

-----------------------------------------------------------------------------
(* Properties of failure handling *)

\* a selected pair find_opportunities has to answer for although another
\* record of the batch fails: similar enough and built without an exception
Buildable(m) ==
    SimilarityGate(m.similarity) /\ ~AnalyzeRaises(m.source, m.target)

\* every opportunity whose scoring does not raise is in every ranking, and
\* nothing else is
RankIsolatesFailures ==
    \A i \in 1..Len(rankings) :
        /\ {rankings[i][k].opportunity.opportunity_id : k \in 1..Len(rankings[i])}
              = {candidate_opps[c].opportunity_id :
                    c \in {c \in 1..Len(candidate_opps) :
                              ~ScoreRaises(candidate_opps[c])}}
        /\ Len(rankings[i])
              = Cardinality({c \in 1..Len(candidate_opps) :
                                ~ScoreRaises(candidate_opps[c])})

\* C14: a record whose construction or scoring raises is dropped alone:
\* find_opportunities never ends in an exception and returns the result of
\* every other selected pair, and rank_opportunities returns every other
\* opportunity.
C14_PartialFailureIsolation ==
    /\ pc # "raised"
    /\ pc = "done" =>
          \A i \in 1..Len(matches) :
              Buildable(matches[i]) =>
                  \E k \in 1..Len(built) :
                      /\ built[k].source = matches[i].source
                      /\ built[k].target = matches[i].target
    /\ RankIsolatesFailures

\* the sum of the five components of a regular assessment
BreakdownTotal(risks) ==
    risks.price_volatility + risks.market_saturation + risks.platform_risk
    + risks.liquidity_risk + risks.time_sensitivity

\* C15: assess_comprehensive_risk always returns: when one of its steps
\* fails the result is total_risk_score 10.0 with risk_level 'unknown', and
\* when only the price-trend lookup fails the result is the regular
\* assessment; in both cases the opportunity is still scored and ranked.
C15_RiskFallback ==
    \A i \in 1..Len(rankings) :
        /\ \A c \in 1..Len(candidate_opps) :
              ~ScoreRaises(candidate_opps[c]) =>
                  \E k \in 1..Len(rankings[i]) :
                      rankings[i][k].opportunity = candidate_opps[c]
        /\ \A k \in 1..Len(rankings[i]) :
              LET o == rankings[i][k].opportunity
                  ra == rankings[i][k].score_data.risk_assessment
              IN  IF AssessRaises(o)
                  THEN /\ ra.total_risk_score = 1000
                       /\ ra.risk_level = "unknown"
                  ELSE /\ ra.risk_level \in {"low", "medium", "high", "very_high"}
                       /\ ra.total_risk_score = BreakdownTotal(ra.risk_breakdown)

\* one ranking holds an opportunity assessed by the fallback and an
\* opportunity assessed regularly although its price-trend lookup failed
C15_Witness ==
    \E i \in 1..Len(rankings) :
        /\ \E k \in 1..Len(rankings[i]) :
              /\ AssessRaises(rankings[i][k].opportunity)
              /\ rankings[i][k].score_data.risk_assessment.risk_level = "unknown"
        /\ \E k \in 1..Len(rankings[i]) :
              LET id == rankings[i][k].opportunity.opportunity_id IN
              /\ ~AssessRaises(rankings[i][k].opportunity)
              /\ price_history_rows[id] >= 3
              /\ analyze_price_trend(price_history_rows[id]).trend = "error"
              /\ rankings[i][k].score_data.risk_assessment.risk_level = "medium"

-----------------------------------------------------------------------------
(* Properties of the fees *)

\* C16: the buy-side fee call never raises and gives 0 for every source
\* listing, whatever its platform and price, so every built opportunity has
\* source_fees = 0.
C16_BuyFeeZero ==
    /\ \A i \in 1..Len(source_products) :
          /\ ~CalculateFeesRaises(source_products[i], "buy")
          /\ _calculate_fees(source_products[i].price,
                             source_products[i].platform, "buy") = 0
    /\ \A k \in 1..Len(built) : built[k].opportunity.source_fees = 0

\* an opportunity bought on eBay at a positive price and sold with a fee
C16_Witness ==
    \E k \in 1..Len(built) :
        /\ built[k].source.platform = "ebay"
        /\ built[k].source.price > 0
        /\ built[k].opportunity.source_fees = 0
        /\ built[k].opportunity.target_fees > 0

\* the target platform's sell-side fee for the listing's price and category
CategoryKeyedSellFee(target) ==
    CASE target.platform = "amazon" ->
             AmazonAPI_calculate_fees(target.price, target.category)
      [] target.platform = "ebay" ->
             EbayAPI_calculate_fees(target.price, target.category)
      [] OTHER -> 0

\* C17: the target_fees of every built opportunity is the target platform's
\* sell-side fee for the target listing's price and category (Amazon:
\* category-keyed referral, price-banded fulfillment, storage, closing fee for
\* books and media; eBay: listing fee, category-keyed final value fee, payment
\* processing).
C17_TargetFeeCategoryKeyed ==
    \A k \in 1..Len(built) :
        built[k].opportunity.target_fees = CategoryKeyedSellFee(built[k].target)

-----------------------------------------------------------------------------
(* SeasonalAnalyzer.get_seasonal_multiplier, called on its own *)

MaxSeasonalCalls == 1

\* product titles the multiplier is asked for
SeasonalTitles ==
    { TitleIphone, TitleTvA, <<>>,
      <<"C","a","m","e","r","a">>, <<"s","p","e","a","k","e","r">>,
      <<"L","a","p","t","o","p">>, <<"b","a","c","k","p","a","c","k">>,
      <<"X","b","o","x">>, <<"t","r","e","a","d","m","i","l","l">>,
      <<"W","E","I","G","H","T","S">> }

InitSeasonal ==
    /\ pc = "seasonal"
    /\ IdleAnalyzer
    /\ IdleRankerAndDecisions
    /\ IdleServices

\* get_seasonal_multiplier(product_title, current_date); a missing
\* current_date is datetime.now(), whose month is one of 1..12 as well
GetSeasonalMultiplier ==
    /\ pc = "seasonal"
    /\ Len(seasonal_calls) < MaxSeasonalCalls
    /\ \E product_title \in SeasonalTitles, month \in 1..12 :
          seasonal_calls' =
              Append(seasonal_calls,
                     [product_title |-> product_title,
                      month         |-> month,
                      multiplier    |-> get_seasonal_multiplier(product_title,
                                                                month)])
    /\ UNCHANGED <<pc, analyzer_vars, ranker_vars, decision_vars,
                   db_opportunities, db_price_history, mem_opportunities, db_now>>
    /\ UNCHANGED <<notify_now, last_notification_time, alerts, bot>>

NextSeasonal == GetSeasonalMultiplier

SpecSeasonal == InitSeasonal /\ [][NextSeasonal]_vars

-----------------------------------------------------------------------------
(* Properties of the seasonal multiplier *)

\* the row of the month/keyword table a title falls in for a month; where
\* August is in two rows, the back-to-school row is read first
TableMultiplier(product_title, month) ==
    LET title_lower == Lower(product_title) IN
    IF month \in {11, 12}
          /\ AnyKeyword(title_lower, electronics_keywords \cup gaming_keywords)
    THEN 130
    ELSE IF month \in {1, 2} /\ AnyKeyword(title_lower, fitness_keywords)
    THEN 140
    ELSE IF month \in {8, 9} /\ AnyKeyword(title_lower, school_keywords)
    THEN 120
    ELSE IF month \in {6, 7, 8} /\ AnyKeyword(title_lower, summer_keywords)
    THEN 110
    ELSE 100

\* C18: every get_seasonal_multiplier result is the one the month/keyword
\* table gives (1.3 electronics or gaming in November-December, 1.4 fitness in
\* January-February, 1.2 back-to-school in August-September, 1.1 camera, phone
\* or speaker in June, July and August, 1.0 otherwise) and lies in [0.5, 1.5].
C18_SeasonalTable ==
    \A i \in 1..Len(seasonal_calls) :
        /\ seasonal_calls[i].multiplier =
              TableMultiplier(seasonal_calls[i].product_title,
                              seasonal_calls[i].month)
        /\ seasonal_calls[i].multiplier >= 50
        /\ seasonal_calls[i].multiplier <= 150

-----------------------------------------------------------------------------
(* Properties of the scoring weights *)

\* C19: the weights used for every ranked opportunity, whatever the
\* risk_tolerance and profit_priority preferences, sum to 1.0 (100
\* hundredths), with the seasonal and velocity weights at 0.1.
C19_WeightsSumToOne ==
    \A i \in 1..Len(rankings) : \A k \in 1..Len(rankings[i]) :
        LET weights == rankings[i][k].score_data.weights_used IN
        /\ weights.profit + weights.roi + weights.risk + weights.seasonal
              + weights.velocity = 100
        /\ weights.seasonal = 10
        /\ weights.velocity = 10

-----------------------------------------------------------------------------
(* Scenario A: the listings of test_opportunity_analysis *)

\* the thresholds of TestArbitrageAnalyzer.setUp
TestThresholds ==
    [min_profit_gbp |-> 10000, min_roi_percentage |-> [num |-> 25, den |-> 1],
     max_risk_score |-> 700, min_seller_rating |-> 350]

\* find_opportunities called on the two listings of Scenario A alone
ScenarioRun ==
    /\ source_products = <<ScenarioSource>>
    /\ target_products = <<ScenarioTarget>>
    /\ profit_thresholds = TestThresholds

-----------------------------------------------------------------------------
(* Properties of the order of the returned lists *)

\* the opportunities find_opportunities appended, in the order of the loop
AppendedInLoop ==
    SelectSeq([k \in 1..Len(built) |-> built[k].opportunity],
              LAMBDA o : _is_profitable_opportunity(o, profit_thresholds))

\* C21: the list find_opportunities returns is in non-increasing net_profit
\* order: each returned opportunity has net_profit >= the one after it.
C21_SortedByNetProfit ==
    pc = "done" =>
        \A i \in 1..(Len(opportunities) - 1) :
            opportunities[i].net_profit >= opportunities[i + 1].net_profit

\* two opportunities returned that the loop had appended in rising order
C21_Witness ==
    /\ pc = "done"
    /\ Len(opportunities) = 2
    /\ Len(AppendedInLoop) = 2
    /\ AppendedInLoop[1].net_profit < AppendedInLoop[2].net_profit
    /\ opportunities[1].net_profit > opportunities[2].net_profit

\* the ids (input positions) of the opportunities whose scoring does not raise
ScoredIds ==
    {i \in 1..Len(candidate_opps) : ~ScoreRaises(candidate_opps[i])}

\* C22: every rank_opportunities result holds exactly the opportunities that
\* were scored without error, in non-increasing composite-score order, and
\* two of them with the same composite score are in their input order.
C22_RankSortedStable ==
    \A i \in 1..Len(rankings) :
        LET ranking == rankings[i] IN
        /\ {ranking[k].opportunity.opportunity_id : k \in 1..Len(ranking)}
              = ScoredIds
        /\ Len(ranking) = Cardinality(ScoredIds)
        /\ \A k \in 1..(Len(ranking) - 1) :
              LET a == ranking[k]
                  b == ranking[k + 1]
              IN  /\ a.score_data.composite_score >= b.score_data.composite_score
                  /\ a.score_data.composite_score = b.score_data.composite_score
                        => a.opportunity.opportunity_id < b.opportunity.opportunity_id

\* a ranking of two different opportunities with the same composite score
C22_Witness ==
    \E i \in 1..Len(rankings) :
        /\ Len(rankings[i]) = 2
        /\ rankings[i][1].score_data.composite_score
              = rankings[i][2].score_data.composite_score
        /\ rankings[i][1].opportunity.product_title
              # rankings[i][2].opportunity.product_title
        /\ rankings[i][1].opportunity.opportunity_id = 1

-----------------------------------------------------------------------------
(* Properties of the matching *)

\* the source x target index pairs with similarity strictly above 0.6
RefCandidates ==
    {p \in (1..Len(source_products)) \X (1..Len(target_products)) :
        RatGt(Similarity(source_products[p[1]], target_products[p[2]]),
              [num |-> 6, den |-> 10])}

\* p comes before q: higher similarity first, then source index, then target
\* index
RefBefore(sim, p, q) ==
    \/ RatGt(sim[p], sim[q])
    \/ /\ ~RatGt(sim[q], sim[p])
       /\ \/ p[1] < q[1]
          \/ p[1] = q[1] /\ p[2] < q[2]

RECURSIVE RefAccepted(_, _)
\* the k-th candidate of the order is accepted iff no accepted earlier
\* candidate claimed its source or its target (a listing is its product_id)
RefAccepted(order, k) ==
    \A m \in 1..(k - 1) :
        RefAccepted(order, m) =>
            /\ source_products[order[m][1]].product_id
                  # source_products[order[k][1]].product_id
            /\ target_products[order[m][2]].product_id
                  # target_products[order[k][2]].product_id

\* the reference greedy procedure on the current source and target lists
ReferenceGreedy ==
    LET sim == [p \in (1..Len(source_products)) \X (1..Len(target_products)) |->
                   Similarity(source_products[p[1]], target_products[p[2]])]
        cands == {p \in DOMAIN sim : RatGt(sim[p], [num |-> 6, den |-> 10])}
        place == [p \in cands |->
                     Cardinality({q \in cands : RefBefore(sim, q, p)}) + 1]
        order == [n \in 1..Cardinality(cands) |->
                     CHOOSE p \in cands : place[p] = n]
        taken == [n \in 1..Len(order) |-> RefAccepted(order, n)]
        ranks == {n \in 1..Len(order) : taken[n]}
        nth(r) == CHOOSE n \in ranks :
                      Cardinality({x \in ranks : x < n}) = r - 1
    IN  [r \in 1..Cardinality(ranks) |->
            [source     |-> source_products[order[nth(r)][1]],
             target     |-> target_products[order[nth(r)][2]],
             similarity |-> sim[order[nth(r)]]]]

\* C23: the list _match_products returns is the list of the reference greedy
\* procedure: the pairs with similarity > 0.6, taken by similarity descending
\* with ties in input order (source index, then target index), a pair being
\* accepted iff neither its source nor its target was claimed by a pair
\* accepted earlier; accepted pairs are listed in that order.
C23_MatchIsReferenceGreedy ==
    (pc = "loop" /\ match_idx = 1) => matches = ReferenceGreedy

\* the sort moved a later candidate to the front and a candidate was refused
\* because its listing was claimed
C23_Witness ==
    /\ pc = "loop"
    /\ match_idx = 1
    /\ Len(matches) = 2
    /\ Cardinality(RefCandidates) > 2
    /\ matches[1].source = source_products[2]

-----------------------------------------------------------------------------
(* Properties of the decision loop *)

\* remaining capital is at most 5% of max_capital
RemainingLow ==
    (available_capital - total_capital_used) * 100 <= available_capital * 5

\* the ids of the ranked opportunities before position n whose evaluation
\* does not raise, in ranked order
EvaluatedIdsBefore(n) ==
    LET evaluated == SelectSeq(SubSeq(ranked_opportunities, 1, n - 1),
                               LAMBDA r : ~EvaluateRaises(r.opportunity))
    IN  [k \in 1..Len(evaluated) |-> evaluated[k].opportunity.opportunity_id]

\* C24: the decisions are, in ranked order, one for each ranked opportunity
\* evaluated without error up to the point the loop has reached; the loop goes
\* on after a recorded decision only while more than 5% of max_capital
\* remains, and it ends before the end of the ranked list only when 5% or less
\* remains, the later opportunities getting no decision.
C24_EarlyTermination ==
    pc \in {"deciding", "returned"} =>
        /\ [k \in 1..Len(decisions) |-> decisions[k].opportunity_id]
              = EvaluatedIdsBefore(decide_idx)
        /\ (pc = "deciding" /\ Len(decisions) > 0) => ~RemainingLow
        /\ (pc = "returned" /\ decide_idx <= Len(ranked_opportunities))
              => RemainingLow /\ Len(decisions) > 0

\* the loop ended on low capital with a ranked opportunity left undecided
C24_Witness ==
    /\ pc = "returned"
    /\ decide_idx <= Len(ranked_opportunities)
    /\ Len(decisions) >= 1
    /\ decisions[Len(decisions)].decision.action = "buy"
    /\ RemainingLow
    /\ ~EvaluateRaises(ranked_opportunities[decide_idx].opportunity)

\* source_price + source_shipping of the opportunity a decision entry is about
CapitalRequiredOf(entry) ==
    candidate_opps[entry.opportunity_id].source_price
        + candidate_opps[entry.opportunity_id].source_shipping

\* the capital used by the buys among the decisions recorded so far
CapitalOfBuys ==
    LET buys == SelectSeq(decisions, LAMBDA e : e.decision.action = "buy")
        sum[n \in 0..Len(buys)] ==
            IF n = 0 THEN 0 ELSE sum[n - 1] + CapitalRequiredOf(buys[n])
    IN  sum[Len(buys)]

\* C29: the capital used is the sum of capital_required (source price plus
\* source shipping) over the 'buy' decisions recorded: a skip of any reason
\* and an evaluation that raises add nothing to it.
C29_CapitalChangesOnlyOnBuy ==
    pc \in {"deciding", "returned"} => total_capital_used = CapitalOfBuys

\* a buy recorded after an insufficient_capital skip
C29_Witness ==
    /\ pc = "returned"
    /\ \E k \in 1..Len(decisions) : \E m \in (k + 1)..Len(decisions) :
          /\ decisions[k].decision.reason = "insufficient_capital"
          /\ decisions[m].decision.action = "buy"
    /\ total_capital_used > 0

-----------------------------------------------------------------------------
(* NotificationManager.send_opportunity_alert *)

MaxAlerts == 3

\* seconds between one send_opportunity_alert call and the next
ElapsedChoices == {0, 299, 300, 86399, 86400, 86500}

AlertPlatforms == { <<"e","b","a","y">>, <<"a","m","a","z","o","n">> }

\* f"{opportunity.source_platform}-{opportunity.target_platform}"
RateLimitKey(source_platform, target_platform) ==
    source_platform \o <<"-">> \o target_platform

\* timedelta.seconds of a non-negative difference: the seconds within the
\* day, the whole days being held in timedelta.days
TimedeltaSeconds(difference) == difference % 86400

\* the manager as __init__ leaves it
InitNotify ==
    /\ pc = "notify"
    /\ IdleAnalyzer
    /\ IdleRankerAndDecisions
    /\ IdleServices

\* one send_opportunity_alert call, `elapsed` seconds after the call before
SendOpportunityAlert ==
    /\ pc = "notify"
    /\ Len(alerts) < MaxAlerts
    /\ \E source_platform \in AlertPlatforms, target_platform \in AlertPlatforms,
          elapsed \in ElapsedChoices :
          LET rate_limit_key == RateLimitKey(source_platform, target_platform)
              now == notify_now + elapsed
              rate_limited ==
                  /\ rate_limit_key \in DOMAIN last_notification_time
                  /\ TimedeltaSeconds(now - last_notification_time[rate_limit_key])
                        < 300
          IN  /\ notify_now' = now
              /\ last_notification_time' =
                    IF rate_limited THEN last_notification_time
                    ELSE [k \in DOMAIN last_notification_time \cup {rate_limit_key}
                             |-> IF k = rate_limit_key THEN now
                                 ELSE last_notification_time[k]]
              /\ alerts' = Append(alerts, [source_platform |-> source_platform,
                                           target_platform |-> target_platform,
                                           at   |-> now,
                                           sent |-> ~rate_limited])
    /\ UNCHANGED <<pc, analyzer_vars, ranker_vars, decision_vars, db_opportunities,
                   db_price_history, mem_opportunities, db_now, seasonal_calls,
                   bot>>

NextNotify == SendOpportunityAlert

SpecNotify == InitNotify /\ [][NextNotify]_vars

-----------------------------------------------------------------------------
(* Properties of the alert interval *)

SamePair(a, b) ==
    /\ a.source_platform = b.source_platform
    /\ a.target_platform = b.target_platform

\* the alerts before the k-th that were sent for the platform pair of the k-th
SentBefore(k) ==
    {j \in 1..(k - 1) : alerts[j].sent /\ SamePair(alerts[j], alerts[k])}

\* C25: an alert is suppressed if and only if the last alert sent for the
\* same source-target platform pair was sent less than 300 seconds before it;
\* an alert 300 seconds or more after the last sent one is sent, however much
\* later it comes, and a suppressed alert does not count as the last sent.
C25_AlertInterval ==
    \A k \in 1..Len(alerts) :
        ~alerts[k].sent <=>
            /\ SentBefore(k) # {}
            /\ \E j \in SentBefore(k) :
                  /\ \A i \in SentBefore(k) : i <= j
                  /\ alerts[k].at - alerts[j].at < 300

-----------------------------------------------------------------------------
(* Properties of the cleanup *)

\* the rows the cleanup is to delete: created before the cutoff, status other
\* than acted and purchased
OldAndUnprotected(days) ==
    {i \in DOMAIN db_opportunities :
        /\ db_opportunities[i].created_at < db_now - days * TicksPerDay
        /\ db_opportunities[i].status \notin {"acted", "purchased"}}

\* C26: cleanup_old_records(days) deletes exactly the stored opportunities
\* created before the cutoff (now minus days) whose status is neither acted
\* nor purchased; all other rows stay as they are.
C26_CleanupExact ==
    [][\A days \in RetentionDays :
          cleanup_old_records(days) =>
              db_opportunities' =
                  [i \in DOMAIN db_opportunities \ OldAndUnprotected(days) |->
                      db_opportunities[i]]]_vars

\* the two safety halves: an acted or purchased row survives every cleanup,
\* and so does a row created inside the retention window
CleanupNeverDeletesProtected ==
    [][\A days \in RetentionDays :
          cleanup_old_records(days) =>
              \A i \in DOMAIN db_opportunities :
                  (\/ db_opportunities[i].status \in {"acted", "purchased"}
                   \/ db_opportunities[i].created_at >= db_now - days * TicksPerDay)
                      => i \in DOMAIN db_opportunities']_vars

-----------------------------------------------------------------------------
(* Properties of the risk level *)

\* C30: every risk assessment returned has a total of at most 17.5 (the five
\* components being at most 5.0, 4.0, 2.5, 3.5 and 2.5), which is under the
\* threshold of 22, and its risk level is low, medium, high or unknown, never
\* very_high.
C30_VeryHighUnreachable ==
    \A i \in 1..Len(rankings) : \A k \in 1..Len(rankings[i]) :
        LET assessment == rankings[i][k].score_data.risk_assessment IN
        /\ assessment.total_risk_score <= 1750
        /\ assessment.risk_level \in {"low", "medium", "high", "unknown"}
        /\ assessment.risk_level # "unknown" =>
              /\ assessment.risk_breakdown.price_volatility <= 500
              /\ assessment.risk_breakdown.market_saturation <= 400
              /\ assessment.risk_breakdown.platform_risk <= 250
              /\ assessment.risk_breakdown.liquidity_risk <= 350
              /\ assessment.risk_breakdown.time_sensitivity <= 250

\* an assessment with saturation, platform, liquidity and time sensitivity all
\* at their maximum
C30_Witness ==
    \E i \in 1..Len(rankings) : \E k \in 1..Len(rankings[i]) :
        LET assessment == rankings[i][k].score_data.risk_assessment IN
        /\ assessment.risk_level # "unknown"
        /\ assessment.risk_breakdown.market_saturation = 400
        /\ assessment.risk_breakdown.platform_risk = 250
        /\ assessment.risk_breakdown.liquidity_risk = 350
        /\ assessment.risk_breakdown.time_sensitivity = 250

-----------------------------------------------------------------------------
(* ArbitrageBot.run_continuous and stop, as main() drives them *)

\* scans counted before the counters stop growing
MaxScans == 3

\* keywords of one scan
MaxKeywords == 2

bot_unchanged ==
    UNCHANGED <<analyzer_vars, ranker_vars, decision_vars, db_opportunities,
                db_price_history, mem_opportunities, db_now, seasonal_calls,
                notify_now, last_notification_time, alerts>>

\* main() after the signal handlers are installed and before bot.initialize()
\* has returned; __init__ has set running to False
InitBot ==
    /\ pc = "initialize"
    /\ IdleAnalyzer
    /\ IdleRankerAndDecisions
    /\ IdleServices

\* bot.initialize() returns: True and main goes on to run_continuous, or
\* False and main returns 1 through its finally clause
Initialize ==
    /\ pc = "initialize"
    /\ \E ok \in BOOLEAN : pc' = IF ok THEN "run_continuous" ELSE "exited"
    /\ UNCHANGED bot
    /\ bot_unchanged

\* the first statements of run_continuous: self.running = True
RunContinuousBegin ==
    /\ pc = "run_continuous"
    /\ pc' = "while"
    /\ bot' = [bot EXCEPT !.running = TRUE]
    /\ bot_unchanged

\* the test `while self.running`
WhileTest ==
    /\ pc = "while"
    /\ pc' = IF bot.running THEN "body" ELSE "after_loop"
    /\ UNCHANGED bot
    /\ bot_unchanged

\* the loop body up to the call of run_single_scan: a scan starts
StartScan ==
    /\ pc = "body"
    /\ pc' = "scan"
    /\ bot' = [bot EXCEPT
                 !.keyword = 1,
                 !.scans = Min(@ + 1, MaxScans),
                 !.scans_after_stop =
                     IF bot.stopped THEN Min(@ + 1, MaxScans) ELSE @,
                 !.scans_after_loop_stop =
                     IF bot.stopped_in_loop THEN Min(@ + 1, MaxScans) ELSE @]
    /\ bot_unchanged

\* one keyword of run_single_scan, whose errors are caught and logged
ScanKeyword ==
    /\ pc = "scan"
    /\ bot.keyword <= MaxKeywords
    /\ bot' = [bot EXCEPT !.keyword = @ + 1]
    /\ UNCHANGED pc
    /\ bot_unchanged

\* the rest of the loop body: the scan is over and the body goes to its sleep
\* of the remaining interval, or an exception sends it to the sleep of 60 s
ScanComplete ==
    /\ pc = "scan"
    /\ bot.keyword > MaxKeywords
    /\ \E raised \in BOOLEAN : pc' = IF raised THEN "retry" ELSE "sleep"
    /\ bot' = [bot EXCEPT !.keyword = 0]
    /\ bot_unchanged

\* asyncio.sleep returns and the loop goes back to its test
WakeUp ==
    /\ pc \in {"sleep", "retry"}
    /\ pc' = "while"
    /\ UNCHANGED bot
    /\ bot_unchanged

\* after the loop: self.running = False, and run_continuous returns
RunContinuousEnd ==
    /\ pc = "after_loop"
    /\ pc' = "returned"
    /\ bot' = [bot EXCEPT !.running = FALSE]
    /\ bot_unchanged

\* main returns 0 through its finally clause
MainReturns ==
    /\ pc = "returned"
    /\ pc' = "exited"
    /\ UNCHANGED bot
    /\ bot_unchanged

\* stop(), called by the signal handler between any two steps of main()
Stop ==
    /\ pc # "exited"
    /\ bot' = [bot EXCEPT
                 !.running = FALSE,
                 !.stopped = TRUE,
                 !.stopped_in_loop =
                     @ \/ pc \in {"while", "body", "scan", "sleep", "retry"}]
    /\ UNCHANGED pc
    /\ bot_unchanged

BotStep ==
    \/ Initialize
    \/ RunContinuousBegin
    \/ WhileTest
    \/ StartScan
    \/ ScanKeyword
    \/ ScanComplete
    \/ WakeUp
    \/ RunContinuousEnd
    \/ MainReturns

NextBot ==
    \/ BotStep
    \/ Stop

SpecBot == InitBot /\ [][NextBot]_vars

\* the event loop keeps running main(); signals arrive or not
SpecBotFair == SpecBot /\ WF_vars(BotStep)

-----------------------------------------------------------------------------
(* Properties of stop *)

\* C27: once stop() has been called, at any point after the signal handlers
\* are installed, run_continuous starts no further scan.
C27_NoScanAfterStop == bot.scans_after_stop = 0

\* C27, second half: once stop() has been called, run_continuous eventually
\* returns (or is never entered).
C27_StopEventuallyReturns == bot.stopped ~> pc \in {"returned", "exited"}

\* a stop() called once the loop has been entered lets at most the scan
\* whose loop test had already passed start
StopInLoopAtMostOneScan == bot.scans_after_loop_stop <= 1

\* a stop() called once the loop has been entered makes run_continuous return
StopInLoopEventuallyReturns ==
    bot.stopped_in_loop ~> pc \in {"returned", "exited"}

\* a stop() called before run_continuous has set running to True is lost
StopBeforeLoopLost ==
    /\ bot.stopped
    /\ ~bot.stopped_in_loop
    /\ bot.scans_after_stop = MaxScans

====
